---- MODULE Spec2Model ----
(***************************************************************************)
(* Model of the probec attestation engine                                  *)
(* (services/attestations/events/service.go): the per-upstream attestation *)
(* handler, the slot -> vote -> source -> bucket table it keeps under      *)
(* attestationsMu, and the records it hands to the submitter.              *)
(*                                                                         *)
(* Representation notes.                                                   *)
(*  - A time.Duration is a record [sec, nsec] with the whole seconds and   *)
(*    the nanosecond remainder (both of the sign of the duration), which   *)
(*    is how Duration.Seconds() splits it.                                 *)
(*  - A phase0.Slot (uint64) is written as the int64 with the same bits,   *)
(*    so slot - 1 of slot 0 is -1, which stands for 2^64 - 1.              *)
(*  - A bitfield.Bitlist is its byte sequence (least significant bit       *)
(*    first, the highest set bit of the last byte is the length bit);      *)
(*    the nil Bitlist is the empty sequence.                               *)
(***************************************************************************)
EXTENDS Integers, Sequences, FiniteSets, Bags, TLC

VARIABLES
    attestationSummaries, \* Service.attestationSummaries: slot -> key -> summary
    attestationsMu,       \* Service.attestationsMu: the set of handlers holding it
    pc,                   \* position of each upstream's handler callback
    ev,                   \* the event each handler is working on, with its delay
    lastSlotSummaries,    \* handleAttestation's local: the sub-map a flush removed
    submitted,            \* calls made on submitter.Service, in order
    eventsReceived,       \* number of monitorEventProcessed observations
    events,               \* number of events delivered so far
    history,              \* history: the singletons that took the lock, in lock order
    baseURLs,             \* immediate.Service.baseURLs
    tasks,                \* the goroutines the immediate submitter started, in order
    calls,                \* number of Submit... calls made on the immediate submitter
    posts,                \* bag of the POST requests handed to http.DefaultClient.Do
    submitterCounter,     \* immediate: submitterCounter (nil or counts by operation, result)
    submitterTimer,       \* immediate: submitterTimer (nil or observations by operation)
    crashed,              \* a goroutine panicked: the process is gone
    clients,              \* main: clients (nil, or address -> client)
    clientsMu,            \* main: clientsMu, its readers and its writer
    fetch,                \* each fetchClient caller: position, address, locals
    constructed,          \* the clients httpclient.New has made: the address of each
    fetched,              \* what fetchClient calls returned: <<address, client>>
    fetches,              \* number of fetchClient calls made
    delayTimer,           \* blocks: delayTimer (nil or number of observations)
    latestTimestamp,      \* blocks: latestTimestamp (nil or number of settings)
    blockEventsReceived,  \* blocks: eventsReceived (nil or count)
    registry,             \* prometheus: the names registered with the default registry
    metricOps,            \* per metric name: times created, times handed to Register
    metricsSeen,          \* the <<package, monitor>> of the registerMetrics calls, in order
    metricsResult,        \* what the last registerMetrics call returned
    metricsCalls,         \* number of metrics calls made
    clockState,           \* chaintime: genesis, slot duration, slots per epoch
    clockCall,            \* chaintime: the last call made, its argument and result
    config,               \* main: the configuration and what each address leads to
    started,              \* main: how startServices ended, and its error
    subscriptions,        \* the <<observer, address>> whose Events call succeeded
    news,                 \* the New calls tests made: parameters, error, subscriptions
    blockSubmitted,       \* blocks: the bodies handed to SubmitBlockDelay, in order
    blockObserved,        \* blocks: the delays handed to monitorEventProcessed, in order
    blockLog              \* blocks: the events delivered and what the upstream answered

engineVars == <<attestationSummaries, attestationsMu, pc, ev, lastSlotSummaries,
                submitted, eventsReceived, events, history>>

immediateVars == <<baseURLs, tasks, calls, posts, submitterCounter, submitterTimer, crashed>>

fetchVars == <<clients, clientsMu, fetch, constructed, fetched, fetches>>

metricsVars == <<delayTimer, latestTimestamp, blockEventsReceived, registry,
                 metricOps, metricsSeen, metricsResult, metricsCalls>>

clockVars == <<clockState, clockCall>>

observerVars == <<config, started, subscriptions, news, blockSubmitted,
                  blockObserved, blockLog>>

vars == <<engineVars, immediateVars, fetchVars, metricsVars, clockVars, observerVars>>

(* What the engine leaves alone, and what the immediate submitter does. *)
notEngineVars == <<immediateVars, fetchVars, metricsVars, clockVars, observerVars>>

notImmediateVars == <<engineVars, fetchVars, metricsVars, clockVars, observerVars>>

notFetchVars == <<engineVars, immediateVars, metricsVars, clockVars, observerVars>>

notClockVars == <<engineVars, immediateVars, fetchVars, metricsVars, observerVars>>

notObserverVars == <<engineVars, immediateVars, fetchVars, metricsVars, clockVars>>

(* Nothing was started, constructed or delivered. *)
NoObservers ==
    /\ config = [mode |-> "none"]
    /\ started = [end |-> "no", err |-> <<>>]
    /\ subscriptions = {}
    /\ news = <<>>
    /\ blockSubmitted = <<>>
    /\ blockObserved = <<>>
    /\ blockLog = <<>>

(* The clock of a 12 s, 32 slot network, before any call on it. *)
NoClock ==
    /\ clockState = [genesis |-> 0, slotDuration |-> 12, slotsPerEpoch |-> 32]
    /\ clockCall = [op |-> "none"]

MetricNames ==
    [blocks |-> {"probec_blocks_delay_seconds", "probec_blocks_latest_timestamp",
                 "probec_blocks_events_total"},
     submitter |-> {"probec_submitter_requests_total",
                    "probec_submitter_duration_seconds"}]

AllMetricNames == MetricNames.blocks \cup MetricNames.submitter

(* No package has registered or observed anything. *)
NoMetrics ==
    /\ delayTimer = [nil |-> TRUE]
    /\ latestTimestamp = [nil |-> TRUE]
    /\ blockEventsReceived = [nil |-> TRUE]
    /\ registry = {}
    /\ metricOps = [name \in AllMetricNames |-> [created |-> 0, registers |-> 0]]
    /\ metricsSeen = <<>>
    /\ metricsResult = "none"
    /\ metricsCalls = 0

Fetchers == {"f1", "f2"}

(* No fetchClient call was made. *)
NoFetch ==
    /\ clients = [nil |-> TRUE]
    /\ clientsMu = [readers |-> {}, writer |-> {}]
    /\ fetch = [f \in Fetchers |-> [pc |-> "idle"]]
    /\ constructed = <<>>
    /\ fetched = {}
    /\ fetches = 0

(* The engine runs against a submitter that only records its calls. *)
NoImmediate ==
    /\ baseURLs = <<>>
    /\ tasks = <<>>
    /\ calls = 0
    /\ posts = EmptyBag
    /\ submitterCounter = [nil |-> TRUE]
    /\ submitterTimer = [nil |-> TRUE]
    /\ crashed = FALSE

----------------------------------------------------------------------------
(* Bounds of the model. *)

MaxEvents == 2     \* events delivered in a run of Spec
MaxStream == 3     \* events delivered in a run of SpecMerge and of SpecSlots
MaxSlot == 1       \* slots 0..MaxSlot in Spec and SpecMerge
MaxLongSlot == 4   \* slots 0..MaxLongSlot in SpecSlots
MaxLateStream == 4 \* events delivered in a run of SpecLate
MaxTasks == 4      \* goroutines started in a run of SpecImmediate
MaxFetches == 3    \* fetchClient calls made in a run of SpecFetch
MaxMetricsCalls == 5  \* registrations and observations in a run of SpecMetrics
MaxClockSlot == 4  \* slots 0..MaxClockSlot in SpecClock
MaxClockEpoch == 2 \* epochs 0..MaxClockEpoch in SpecClock
PreGenesis == 3    \* time units before genesis that SpecClock's timestamps start at
MaxOffset == 61    \* time units after genesis that SpecClock's timestamps end at
MaxNews == 2       \* New calls made in a test run of SpecObservers
MaxBlockEvents == 2  \* block events delivered in a run of SpecObservers

(* Program constants. *)

NumBuckets == 120
RootLength == 32

----------------------------------------------------------------------------
(* Go integer arithmetic: / and % truncate towards zero. *)

Quo(a, b) == IF a >= 0 THEN a \div b ELSE -((-a) \div b)

Rem(a, b) == a - b * Quo(a, b)

(* math/bits on one byte. *)

RECURSIVE Len8(_)
Len8(x) == IF x = 0 THEN 0 ELSE 1 + Len8(x \div 2)

RECURSIVE OnesCount8(_)
OnesCount8(x) == IF x = 0 THEN 0 ELSE (x % 2) + OnesCount8(x \div 2)

RECURSIVE OrByte(_, _)
OrByte(a, b) ==
    IF a = 0 THEN b
    ELSE IF b = 0 THEN a
    ELSE (IF a % 2 = 1 \/ b % 2 = 1 THEN 1 ELSE 0) + 2 * OrByte(a \div 2, b \div 2)

RECURSIVE Pow2(_)
Pow2(n) == IF n = 0 THEN 1 ELSE 2 * Pow2(n - 1)

----------------------------------------------------------------------------
(* bitfield.Bitlist, as the handler uses it. *)

NilBitlist == <<>>

BitlistLen(b) ==
    IF Len(b) = 0 THEN 0
    ELSE LET msb == Len8(b[Len(b)])
         IN  IF msb = 0 THEN 0 ELSE 8 * (Len(b) - 1) + msb - 1

RECURSIVE CountFrom(_, _)
CountFrom(b, i) ==
    IF i > Len(b) THEN 0
    ELSE LET bt == IF i = Len(b) /\ Len8(b[i]) > 0
                   THEN b[i] - Pow2(Len8(b[i]) - 1)
                   ELSE b[i]
         IN  OnesCount8(bt) + CountFrom(b, i + 1)

BitlistCount(b) == CountFrom(b, 1)

(* Bitlist.Or: (nil, error) when the lengths differ, else the bytewise OR. *)
BitlistOr(b, c) ==
    IF BitlistLen(b) # BitlistLen(c)
    THEN [err |-> TRUE, bits |-> NilBitlist]
    ELSE [err |-> FALSE, bits |-> [i \in 1..Len(b) |-> OrByte(b[i], c[i])]]

----------------------------------------------------------------------------
(* fmt verbs. *)

HexDigits == <<"0", "1", "2", "3", "4", "5", "6", "7",
               "8", "9", "a", "b", "c", "d", "e", "f">>

HexByte(x) == HexDigits[(x \div 16) + 1] \o HexDigits[(x % 16) + 1]

RECURSIVE HexFrom(_, _)
HexFrom(b, i) == IF i > Len(b) THEN "" ELSE HexByte(b[i]) \o HexFrom(b, i + 1)

(* %x of a byte slice or array. *)
FmtHex(b) == HexFrom(b, 1)

(* %#x of a byte slice or array: nothing at all for an empty one. *)
FmtSharpHex(b) == IF Len(b) = 0 THEN "" ELSE "0x" \o HexFrom(b, 1)

(* %d of a uint64. *)
FmtUint64(n) == IF n = -1 THEN "18446744073709551615" ELSE ToString(n)

----------------------------------------------------------------------------
(* time.Duration. *)

Milliseconds(d) == d.sec * 1000 + Quo(d.nsec, 1000000)

(* Mutant: the gate compares whole seconds. *)
DelayOutOfRangeWholeSeconds(d) == d.sec < 0 \/ d.sec > 12

(* delay.Seconds() < 0 || delay.Seconds() > 12, on the float64 sec + nsec/1e9 *)
DelayOutOfRange(d) ==
    \/ d.sec < 0 \/ (d.sec = 0 /\ d.nsec < 0)
    \/ d.sec > 12 \/ (d.sec = 12 /\ d.nsec > 0)

---------------------------------------------------------------------------------------------------------------------------------------------------
(* The upstreams and what they can deliver. *)

Addresses == {"A", "B"}

Slots == 0..MaxSlot

LongSlots == 0..MaxLongSlot

Root(x) == [i \in 1..RootLength |-> x]

Vote(i) ==
    [index |-> i, beaconBlockRoot |-> Root(170),
     sourceRoot |-> Root(187), targetRoot |-> Root(204)]

(* Bitlists: 2 bits with bit 0 set (5), bit 1 set (6), both set (7), none  *)
(* set (4); 3 bits with bit 0 set (9).                                     *)
VotesAndBits ==
    { <<Vote(0), <<5>>>>, <<Vote(0), <<6>>>>, <<Vote(0), <<9>>>>,
      <<Vote(1), <<5>>>>, <<Vote(0), <<7>>>>, <<Vote(0), <<4>>>> }

(* The singletons among them, and one aggregate. *)
MergeVotesAndBits ==
    { <<Vote(0), <<5>>>>, <<Vote(0), <<6>>>>, <<Vote(0), <<9>>>>,
      <<Vote(1), <<5>>>>, <<Vote(0), <<7>>>> }

(* One singleton and one aggregate. *)
FewVotesAndBits == { <<Vote(0), <<5>>>>, <<Vote(0), <<7>>>> }

Attestations(slots, votesAndBits) ==
    { [slot |-> s, index |-> vb[1].index,
       beaconBlockRoot |-> vb[1].beaconBlockRoot,
       sourceRoot |-> vb[1].sourceRoot, targetRoot |-> vb[1].targetRoot,
       aggregationBits |-> vb[2]] : s \in slots, vb \in votesAndBits }

(* -1ns, 150ms, 250ms, 12s, 12s+1ns, 13s *)
Delays ==
    { [sec |-> 0, nsec |-> -1], [sec |-> 0, nsec |-> 150000000],
      [sec |-> 0, nsec |-> 250000000], [sec |-> 12, nsec |-> 0],
      [sec |-> 12, nsec |-> 1], [sec |-> 13, nsec |-> 0] }

(* 150ms *)
OneDelay == { [sec |-> 0, nsec |-> 150000000] }

NoEvent ==
    [slot |-> 0, index |-> 0, beaconBlockRoot |-> <<>>, sourceRoot |-> <<>>,
     targetRoot |-> <<>>, aggregationBits |-> NilBitlist,
     delay |-> [sec |-> 0, nsec |-> 0]]

NodeVersion(a) == "node/" \o a

----------------------------------------------------------------------------
(* handleAttestation, the pure parts. *)

(* Mutant: an attestation without a set bit counts as an individual one. *)
IsSingletonOrEmpty(validators) == validators <= 1

(* Mutant: an attestation with any set bit counts as an individual one. *)
IsSingletonOrMore(validators) == validators >= 1

(* validators == 1 *)
IsSingleton(validators) == validators = 1

(* Mutant: the bucket is the tenth of a second the delay falls in. *)
BucketOfTenths(d) == Quo(Milliseconds(d), 100)

(* bucket := delay.Milliseconds() % 100 *)
Bucket(d) == Rem(Milliseconds(d), 100)

(* bucket < 0 || bucket > 119 *)
BucketOutOfRange(b) == b < 0 \/ b > 119

(* fmt.Sprintf("%d:%x:%x:%x", index, beaconBlockRoot, source root, target root) *)
Key(a) ==
    FmtUint64(a.index) \o ":" \o FmtHex(a.beaconBlockRoot) \o ":"
        \o FmtHex(a.sourceRoot) \o ":" \o FmtHex(a.targetRoot)

(* Mutant: the slot itself is looked up. *)
PrevSlotIsSlot(s) == s

(* attestation.Data.Slot-1 *)
PrevSlot(s) == s - 1

EmptyMap == <<>>

Put(m, k, v) == [x \in DOMAIN m \cup {k} |-> IF x = k THEN v ELSE m[x]]

(* Mutant: nothing is deleted. *)
RemoveNothing(m, k) == m

(* Mutant: the whole map is cleared. *)
RemoveAll(m, k) == <<>>

(* delete(m, k) *)
Remove(m, k) == [x \in DOMAIN m \ {k} |-> m[x]]

(* &[120]bitfield.Bitlist{} *)
NewBuckets == [b \in 0..(NumBuckets - 1) |-> NilBitlist]

(* &attestationSummary{...} with an empty buckets map *)
NewSummary(a) ==
    [committee |-> a.index, beaconBlockRoot |-> a.beaconBlockRoot,
     sourceRoot |-> a.sourceRoot, targetRoot |-> a.targetRoot,
     buckets |-> EmptyMap]

(* Mutant: the bucket is overwritten. *)
MergeBucketOverwrite(old, bits) == [err |-> FALSE, bits |-> bits]

(* buckets[bucket] after the nil test and the Or, and whether the Or failed. *)
MergeBucket(old, bits) ==
    IF old = NilBitlist
    THEN [err |-> FALSE, bits |-> bits]
    ELSE BitlistOr(old, bits)

(* Mutant: the slot's map is made anew on every singleton. *)
MergeAttestationIntoNewMap(table, address, e, bucket) ==
    LET summary == NewSummary(e)
        res == MergeBucket(NewBuckets[bucket], e.aggregationBits)
        buckets2 == [NewBuckets EXCEPT ![bucket] = res.bits]
        summary2 == [summary EXCEPT !.buckets = Put(summary.buckets, address, buckets2)]
    IN  [err |-> res.err,
         table |-> Put(table, e.slot, Put(EmptyMap, Key(e), summary2))]

(* The table after the insert-or-fetch chain and the merge of e from address. *)
MergeAttestation(table, address, e, bucket) ==
    LET key == Key(e)
        slotSummaries == IF e.slot \in DOMAIN table THEN table[e.slot] ELSE EmptyMap
        summary == IF key \in DOMAIN slotSummaries
                   THEN slotSummaries[key] ELSE NewSummary(e)
        buckets == IF address \in DOMAIN summary.buckets
                   THEN summary.buckets[address] ELSE NewBuckets
        res == MergeBucket(buckets[bucket], e.aggregationBits)
        buckets2 == [buckets EXCEPT ![bucket] = res.bits]
        summary2 == [summary EXCEPT !.buckets = Put(summary.buckets, address, buckets2)]
    IN  [err |-> res.err,
         table |-> Put(table, e.slot, Put(slotSummaries, key, summary2))]

(* One element of the attestations array of a summary body. *)
SummaryEntry(s) ==
    [committee_index |-> FmtUint64(s.committee),
     beacon_block_root |-> FmtSharpHex(s.beaconBlockRoot),
     source_root |-> FmtSharpHex(s.sourceRoot),
     target_root |-> FmtSharpHex(s.targetRoot),
     buckets |-> [a \in DOMAIN s.buckets |->
                    [i \in 1..NumBuckets |-> FmtSharpHex(s.buckets[a][i - 1])]]]

(* The summary body; order is the order the range over the map yields. *)
SummaryBody(slot, summaries, order) ==
    [method |-> "attestation event",
     slot |-> FmtUint64(slot),
     attestations |-> [i \in 1..Len(order) |-> SummaryEntry(summaries[order[i]])]]

(* The aggregate attestation body. *)
AggregateBody(source, e) ==
    [source |-> source,
     method |-> "attestation event",
     slot |-> FmtUint64(e.slot),
     committee_index |-> FmtUint64(e.index),
     beacon_block_root |-> FmtSharpHex(e.beaconBlockRoot),
     source_root |-> FmtSharpHex(e.sourceRoot),
     target_root |-> FmtSharpHex(e.targetRoot),
     aggregation_bits |-> FmtSharpHex(e.aggregationBits),
     delay_ms |-> ToString(Milliseconds(e.delay))]

(* The orders in which a range over a map with these keys can yield them. *)
Orders(S) ==
    { f \in [1..Cardinality(S) -> S] : \A i, j \in DOMAIN f : f[i] = f[j] => i = j }

(* History record of a singleton that took the lock: what it carried,      *)
(* whether its Or failed, and where its slot's entry is: in the "table",   *)
(* with the handler that removed it, or "sent".                            *)
HistoryRecord(address, e, err) ==
    [slot |-> e.slot, key |-> Key(e), index |-> e.index, source |-> address,
     bucket |-> Bucket(e.delay), bits |-> e.aggregationBits,
     err |-> err, at |-> "table"]

Move(h, slot, from, to) ==
    [i \in DOMAIN h |->
        IF h[i].slot = slot /\ h[i].at = from THEN [h[i] EXCEPT !.at = to] ELSE h[i]]

----------------------------------------------------------------------------
(* The state machine. *)

Init ==
    /\ attestationSummaries = EmptyMap
    /\ attestationsMu = {}
    /\ pc = [h \in Addresses |-> "idle"]
    /\ ev = [h \in Addresses |-> NoEvent]
    /\ lastSlotSummaries = [h \in Addresses |-> EmptyMap]
    /\ submitted = <<>>
    /\ eventsReceived = 0
    /\ events = 0
    /\ history = <<>>
    /\ NoImmediate
    /\ NoFetch
    /\ NoMetrics
    /\ NoClock
    /\ NoObservers

(* The callback returns: its event and locals go out of scope. *)
Return(h) ==
    /\ pc' = [pc EXCEPT ![h] = "idle"]
    /\ ev' = [ev EXCEPT ![h] = NoEvent]

(* The AttestationHandler callback up to the call of a handler, and           *)
(* handleAttestation up to attestationsMu.Lock().                             *)
Receive(h, a, d, max) ==
    /\ UNCHANGED notEngineVars
    /\ pc[h] = "idle"
    /\ events < max
    /\ events' = events + 1
    /\ IF DelayOutOfRange(d)
       THEN UNCHANGED <<eventsReceived, pc, ev>>
       ELSE /\ eventsReceived' = eventsReceived + 1
            /\ IF IsSingleton(BitlistCount(a.aggregationBits)) /\ BucketOutOfRange(Bucket(d))
               THEN UNCHANGED <<pc, ev>>
               ELSE /\ pc' = [pc EXCEPT ![h] =
                                 IF IsSingleton(BitlistCount(a.aggregationBits))
                                 THEN "lock" ELSE "aggregate"]
                    /\ ev' = [ev EXCEPT ![h] =
                                 [slot |-> a.slot, index |-> a.index,
                                  beaconBlockRoot |-> a.beaconBlockRoot,
                                  sourceRoot |-> a.sourceRoot,
                                  targetRoot |-> a.targetRoot,
                                  aggregationBits |-> a.aggregationBits,
                                  delay |-> d]]
    /\ UNCHANGED <<attestationSummaries, attestationsMu, lastSlotSummaries,
                   submitted, history>>

(* s.attestationsMu.Lock() *)
Lock(h) ==
    /\ UNCHANGED notEngineVars
    /\ pc[h] = "lock"
    /\ attestationsMu = {}
    /\ attestationsMu' = {h}
    /\ pc' = [pc EXCEPT ![h] = "merge"]
    /\ UNCHANGED <<attestationSummaries, ev, lastSlotSummaries, submitted,
                   eventsReceived, events, history>>

(* Mutant: the return after a failed Or leaves the mutex locked. *)
MergeKeepingLockOnError(h) ==
    /\ UNCHANGED notEngineVars
    /\ pc[h] = "merge"
    /\ LET r == MergeAttestation(attestationSummaries, h, ev[h], Bucket(ev[h].delay))
       IN  /\ attestationSummaries' = r.table
           /\ history' = Append(history, HistoryRecord(h, ev[h], r.err))
           /\ IF r.err
              THEN /\ UNCHANGED attestationsMu
                   /\ Return(h)
              ELSE /\ pc' = [pc EXCEPT ![h] = "flush"]
                   /\ UNCHANGED <<attestationsMu, ev>>
    /\ UNCHANGED <<lastSlotSummaries, submitted, eventsReceived, events>>

(* Mutant: a failed Or is logged and the handler goes on to the flush. *)
MergeIgnoringError(h) ==
    /\ UNCHANGED notEngineVars
    /\ pc[h] = "merge"
    /\ LET r == MergeAttestation(attestationSummaries, h, ev[h], Bucket(ev[h].delay))
       IN  /\ attestationSummaries' = r.table
           /\ history' = Append(history, HistoryRecord(h, ev[h], r.err))
           /\ pc' = [pc EXCEPT ![h] = "flush"]
           /\ UNCHANGED <<attestationsMu, ev>>
    /\ UNCHANGED <<lastSlotSummaries, submitted, eventsReceived, events>>

(* From the lookup of the slot to the end of the merge. *)
Merge(h) ==
    /\ UNCHANGED notEngineVars
    /\ pc[h] = "merge"
    /\ LET r == MergeAttestation(attestationSummaries, h, ev[h], Bucket(ev[h].delay))
       IN  /\ attestationSummaries' = r.table
           /\ history' = Append(history, HistoryRecord(h, ev[h], r.err))
           /\ IF r.err
              THEN /\ attestationsMu' = attestationsMu \ {h}
                   /\ Return(h)
              ELSE /\ pc' = [pc EXCEPT ![h] = "flush"]
                   /\ UNCHANGED <<attestationsMu, ev>>
    /\ UNCHANGED <<lastSlotSummaries, submitted, eventsReceived, events>>

(* Mutant: the mutex is released only after the summary was submitted. *)
FlushHoldingLock(h) ==
    /\ UNCHANGED notEngineVars
    /\ pc[h] = "flush"
    /\ LET last == PrevSlot(ev[h].slot)
       IN  IF last \notin DOMAIN attestationSummaries
           THEN /\ Return(h)
                /\ attestationsMu' = attestationsMu \ {h}
                /\ UNCHANGED <<attestationSummaries, lastSlotSummaries, history>>
           ELSE /\ lastSlotSummaries' =
                      [lastSlotSummaries EXCEPT ![h] = attestationSummaries[last]]
                /\ attestationSummaries' = Remove(attestationSummaries, last)
                /\ history' = Move(history, last, "table", h)
                /\ pc' = [pc EXCEPT ![h] = "submit"]
                /\ UNCHANGED <<ev, attestationsMu>>
    /\ UNCHANGED <<submitted, eventsReceived, events>>

(* The lookup of slot-1, and the delete and Unlock that follow it. *)
Flush(h) ==
    /\ UNCHANGED notEngineVars
    /\ pc[h] = "flush"
    /\ LET last == PrevSlot(ev[h].slot)
       IN  IF last \notin DOMAIN attestationSummaries
           THEN /\ Return(h)
                /\ UNCHANGED <<attestationSummaries, lastSlotSummaries, history>>
           ELSE /\ lastSlotSummaries' =
                      [lastSlotSummaries EXCEPT ![h] = attestationSummaries[last]]
                /\ attestationSummaries' = Remove(attestationSummaries, last)
                /\ history' = Move(history, last, "table", h)
                /\ pc' = [pc EXCEPT ![h] = "submit"]
                /\ UNCHANGED ev
    /\ attestationsMu' = attestationsMu \ {h}
    /\ UNCHANGED <<submitted, eventsReceived, events>>

(* Build the body and call SubmitAttestationSummary. *)
Submit(h) ==
    /\ UNCHANGED notEngineVars
    /\ pc[h] = "submit"
    /\ \E order \in Orders(DOMAIN lastSlotSummaries[h]) :
          submitted' = Append(submitted,
              [op |-> "SubmitAttestationSummary",
               body |-> SummaryBody(PrevSlot(ev[h].slot), lastSlotSummaries[h], order)])
    /\ lastSlotSummaries' = [lastSlotSummaries EXCEPT ![h] = EmptyMap]
    /\ history' = Move(history, PrevSlot(ev[h].slot), h, "sent")
    /\ Return(h)
    /\ UNCHANGED <<attestationSummaries, attestationsMu, eventsReceived, events>>

(* Mutant: the aggregate is submitted whatever NodeVersion answers. *)
AggregateWithUnknownSource(h, failed) ==
    /\ UNCHANGED notEngineVars
    /\ pc[h] = "aggregate"
    /\ submitted' = Append(submitted,
            [op |-> "SubmitAggregateAttestation",
             body |-> AggregateBody(IF failed THEN "" ELSE NodeVersion(h), ev[h])])
    /\ Return(h)
    /\ UNCHANGED <<attestationSummaries, attestationsMu, lastSlotSummaries,
                   eventsReceived, events, history>>

(* handleAggregateAttestation when NodeVersion fails, or answers. *)
AggregateWith(h, failed) ==
    /\ UNCHANGED notEngineVars
    /\ pc[h] = "aggregate"
    /\ IF failed
       THEN UNCHANGED submitted
       ELSE submitted' = Append(submitted,
                [op |-> "SubmitAggregateAttestation",
                 body |-> AggregateBody(NodeVersion(h), ev[h])])
    /\ Return(h)
    /\ UNCHANGED <<attestationSummaries, attestationsMu, lastSlotSummaries,
                   eventsReceived, events, history>>

(* handleAggregateAttestation. *)
Aggregate(h) == \E failed \in BOOLEAN : AggregateWith(h, failed)

(* One step of the engine, its upstreams delivering at most max events     *)
(* drawn from these attestations, at these delays.                         *)
Step(attestations, delays, max) ==
    \/ \E h \in Addresses, a \in attestations, d \in delays : Receive(h, a, d, max)
    \/ \E h \in Addresses : Lock(h)
    \/ \E h \in Addresses : Merge(h)
    \/ \E h \in Addresses : Flush(h)
    \/ \E h \in Addresses : Submit(h)
    \/ \E h \in Addresses : Aggregate(h)

(* Every kind of event at every kind of delay. *)
Next == Step(Attestations(Slots, VotesAndBits), Delays, MaxEvents)

Spec == Init /\ [][Next]_vars

(* Longer streams of singletons that pass the gate. *)
NextMerge == Step(Attestations(Slots, MergeVotesAndBits), OneDelay, MaxStream)

SpecMerge == Init /\ [][NextMerge]_vars

(* Longer streams over more slots. *)
NextSlots == Step(Attestations(LongSlots, FewVotesAndBits), OneDelay, MaxStream)

SpecSlots == Init /\ [][NextSlots]_vars

(* Streams long enough for a slot to be flushed, reopened and flushed again. *)
NextLate == Step(Attestations(Slots, FewVotesAndBits), OneDelay, MaxLateStream)

SpecLate == Init /\ [][NextLate]_vars

(* The slots at the two ends of uint64: 2^64-1, written as the slot before *)
(* slot 0, and 0.                                                          *)
WrapSlots == {PrevSlot(0), 0}

(* Streams over the slots at the two ends of uint64. *)
NextWrap == Step(Attestations(WrapSlots, FewVotesAndBits), OneDelay, MaxStream)

SpecWrap == Init /\ [][NextWrap]_vars

----------------------------------------------------------------------------
(* What the properties below read off a state. *)

(* The bucket array of a source under a vote of a slot; all nil when absent. *)
BucketsAt(table, slot, key, source) ==
    IF /\ slot \in DOMAIN table
       /\ key \in DOMAIN table[slot]
       /\ source \in DOMAIN table[slot][key].buckets
    THEN table[slot][key].buckets[source]
    ELSE [b \in 0..119 |-> <<>>]

(* Handler h leaves position p in this step. *)
Leaves(h, p) == pc[h] = p /\ pc'[h] # p

(* Whole milliseconds of a delay that is not negative. *)
WholeMs(d) == d.sec * 1000 + (d.nsec \div 1000000)

(* The only bucket of its source that the merge of h's singleton may change is b. *)
MergesInto(h, b) ==
    LET e == ev[h]
        old == BucketsAt(attestationSummaries, e.slot, Key(e), h)
        new == BucketsAt(attestationSummaries', e.slot, Key(e), h)
    IN  /\ b \in 0..119
        /\ [new EXCEPT ![b] = <<>>] = [old EXCEPT ![b] = <<>>]
        /\ pc'[h] = "flush" => new[b] # <<>>

Discarded(h) ==
    /\ pc'[h] = "idle"
    /\ eventsReceived' = eventsReceived
    /\ attestationSummaries' = attestationSummaries
    /\ submitted' = submitted

(* C2, as claimed: an event whose delay is negative or at least 12 s        *)
(* (12 s exactly included) is discarded: no observation, no table change,   *)
(* no submitter call.                                                       *)
C2_DiscardedFrom12s ==
    [][\A h \in Addresses, a \in Attestations(Slots, VotesAndBits), d \in Delays :
          (Receive(h, a, d, MaxEvents) /\ (d.sec < 0 \/ d.nsec < 0 \/ d.sec >= 12))
              => Discarded(h)]_vars

(* C2, amended: an event whose delay is negative or more than 12 s is       *)
(* discarded: no observation, no table change, no submitter call.           *)
C2_DiscardedAbove12s ==
    [][\A h \in Addresses, a \in Attestations(Slots, VotesAndBits), d \in Delays :
          (Receive(h, a, d, MaxEvents)
             /\ (d.sec < 0 \/ d.nsec < 0 \/ d.sec > 12 \/ (d.sec = 12 /\ d.nsec > 0)))
              => Discarded(h)]_vars

(* C2 witness: every event delivered was dropped at the gate and left no trace. *)
C2_Witness ==
    /\ events = MaxEvents
    /\ eventsReceived = 0
    /\ attestationSummaries = EmptyMap
    /\ submitted = <<>>
    /\ \A h \in Addresses : pc[h] = "idle"

(* The singletons took the lock in an order of non-decreasing slots. *)
SlotsNeverDecrease ==
    \A i \in 2..Len(history) : history[i - 1].slot <= history[i].slot

(* No singleton's slot is more than one above the slot of the one before it. *)
SlotsNeverSkip ==
    \A i \in 2..Len(history) : history[i].slot <= history[i - 1].slot + 1

(* C3, as claimed: while the singletons' slots never decrease (slots may be *)
(* skipped), the table holds entries for at most two slots.                 *)
C3_AtMostTwoSlots ==
    SlotsNeverDecrease => Cardinality(DOMAIN attestationSummaries) <= 2

(* C3, amended: while the singletons' slots never decrease and never skip   *)
(* a slot, the table holds entries for at most two slots.                   *)
C3_AtMostTwoSlotsUnskipped ==
    (SlotsNeverDecrease /\ SlotsNeverSkip)
        => Cardinality(DOMAIN attestationSummaries) <= 2

(* C3 witness: three singletons of slots 0, 1, 2 in turn; the third has     *)
(* been merged and slot 1 is about to be flushed.                           *)
C3_Witness ==
    /\ Len(history) = 3
    /\ history[1].slot = 0 /\ history[2].slot = 1 /\ history[3].slot = 2
    /\ DOMAIN attestationSummaries = {1, 2}
    /\ \E h \in Addresses : pc[h] = "flush"

(* The lookup of slot-1 and what follows it: a present entry is removed and *)
(* handed to the submit step, an absent one ends the handler silently.      *)
FlushesPrior(h) ==
    LET prior == ev[h].slot - 1
    IN  IF prior \in DOMAIN attestationSummaries
        THEN /\ prior \notin DOMAIN attestationSummaries'
             /\ pc'[h] = "submit"
             /\ submitted' = submitted
        ELSE /\ pc'[h] = "idle"
             /\ submitted' = submitted
             /\ attestationSummaries' = attestationSummaries

(* The submit step makes exactly one summary call, for the slot before the  *)
(* singleton's.                                                             *)
SubmitsPrior(h) ==
    /\ Len(submitted') = Len(submitted) + 1
    /\ SubSeq(submitted', 1, Len(submitted)) = submitted
    /\ submitted'[Len(submitted')].op = "SubmitAttestationSummary"
    /\ submitted'[Len(submitted')].body.slot = ToString(ev[h].slot - 1)
    /\ pc'[h] = "idle"

(* The merge of h's singleton finds its bucket nil or of its own length. *)
MergeCanSucceed(h) ==
    LET old == BucketsAt(attestationSummaries, ev[h].slot, Key(ev[h]), h)
                   [WholeMs(ev[h].delay) % 100]
    IN  old = <<>> \/ BitlistLen(old) = BitlistLen(ev[h].aggregationBits)

(* C4, as claimed: a singleton for slot S processed while the table holds   *)
(* S-1 removes that entry and makes exactly one summary call with slot S-1; *)
(* without an entry for S-1 it makes no summary call.                       *)
C4_FlushOnEverySingleton ==
    [][\A h \in Addresses :
          /\ Leaves(h, "merge") =>
                /\ submitted' = submitted
                /\ (ev[h].slot - 1) \in DOMAIN attestationSummaries
                      => pc'[h] = "flush"
          /\ Leaves(h, "flush") => FlushesPrior(h)
          /\ Leaves(h, "submit") => SubmitsPrior(h)]_vars

(* C4, amended: a singleton for slot S whose merge does not fail on a       *)
(* bitlist length mismatch, processed while the table holds S-1, removes    *)
(* that entry and makes exactly one summary call with slot S-1; without an  *)
(* entry for S-1 it makes no summary call.                                  *)
C4_FlushOnMergedSingleton ==
    [][\A h \in Addresses :
          /\ Leaves(h, "merge") =>
                /\ submitted' = submitted
                /\ (MergeCanSucceed(h)
                      /\ (ev[h].slot - 1) \in DOMAIN attestationSummaries)
                      => pc'[h] = "flush"
          /\ Leaves(h, "flush") => FlushesPrior(h)
          /\ Leaves(h, "submit") => SubmitsPrior(h)]_vars

(* C4 witness: a singleton of slot 1 has flushed slot 0 and its summary,    *)
(* the only call made, has been submitted.                                  *)
C4_Witness ==
    /\ Len(submitted) = 1
    /\ submitted[1].op = "SubmitAttestationSummary"
    /\ submitted[1].body.slot = "0"
    /\ DOMAIN attestationSummaries = {1}
    /\ \A h \in Addresses : pc[h] = "idle"

(* C5: an entry for slot N leaves the table only in the flush step of a     *)
(* singleton for slot N+1; no other step of any handler removes it.         *)
C5_OnlyFlushEvicts ==
    [][\A n \in DOMAIN attestationSummaries :
          n \notin DOMAIN attestationSummaries' =>
              \E h \in Addresses :
                  /\ pc[h] = "flush" /\ pc'[h] = "submit"
                  /\ ev[h].slot = n + 1
                  /\ BitlistCount(ev[h].aggregationBits) = 1]_vars

(* C5 witness: slot 1's entry was there when a singleton of slot 0 was      *)
(* handled to its end, and it is still there.                               *)
C5_Witness ==
    /\ Len(history) = 2
    /\ history[1].slot = 1 /\ history[2].slot = 0
    /\ DOMAIN attestationSummaries = {0, 1}
    /\ submitted = <<>>
    /\ \A h \in Addresses : pc[h] = "idle"

(* Positions in the history of the singletons of slot n. *)
OfSlot(n) == {i \in DOMAIN history : history[i].slot = n}

(* Positions in the history of the singletons whose entry handler h holds. *)
HeldBy(h) == {i \in DOMAIN history : history[i].at = h}

(* The last call made in this step, the only one made in it. *)
OneCallMade ==
    /\ Len(submitted') = Len(submitted) + 1
    /\ SubSeq(submitted', 1, Len(submitted)) = submitted

LastCall == submitted'[Len(submitted')]

(* C6: when the first singleton ever merged for slot N+1 finds singletons   *)
(* of slot N in the history, its handler removes the entry of slot N with   *)
(* every vote key seen for N, no summary having been submitted for N, and   *)
(* submits exactly one summary, with slot N and exactly one attestations    *)
(* element per such key.                                                    *)
C6_OneSummaryOneEntryPerVote ==
    [][\A h \in Addresses :
          /\ (Leaves(h, "flush")
                /\ Cardinality(OfSlot(ev[h].slot)) = 1
                /\ OfSlot(ev[h].slot - 1) # {})
                => /\ pc'[h] = "submit"
                   /\ \A k \in DOMAIN submitted :
                          ~(/\ submitted[k].op = "SubmitAttestationSummary"
                            /\ submitted[k].body.slot = ToString(ev[h].slot - 1))
                   /\ DOMAIN lastSlotSummaries'[h]
                          = {history[i].key : i \in OfSlot(ev[h].slot - 1)}
                   /\ \A i \in OfSlot(ev[h].slot - 1) : history'[i].at = h
          /\ Leaves(h, "submit")
                => /\ OneCallMade
                   /\ LastCall.op = "SubmitAttestationSummary"
                   /\ LastCall.body.slot = ToString(ev[h].slot - 1)
                   /\ Len(LastCall.body.attestations)
                          = Cardinality({history[i].key : i \in HeldBy(h)})
                   /\ \A i \in HeldBy(h) :
                          \E j \in DOMAIN LastCall.body.attestations :
                              LastCall.body.attestations[j].committee_index
                                  = ToString(history[i].index)]_vars

(* C6 witness: one summary was submitted, for slot 0, with two elements:    *)
(* singletons of two votes of slot 0, then the first singleton of slot 1.   *)
C6_Witness ==
    /\ Len(submitted) = 1
    /\ submitted[1].op = "SubmitAttestationSummary"
    /\ submitted[1].body.slot = "0"
    /\ Len(submitted[1].body.attestations) = 2
    /\ Len(history) = 3
    /\ history[3].slot = 1

(* Bytewise OR of two bitlists, the nil one counting as no bits. *)
OrBits(a, b) ==
    IF a = <<>> THEN b
    ELSE IF b = <<>> THEN a
    ELSE [i \in 1..(IF Len(a) > Len(b) THEN Len(a) ELSE Len(b)) |->
             OrByte(IF i <= Len(a) THEN a[i] ELSE 0, IF i <= Len(b) THEN b[i] ELSE 0)]

RECURSIVE OrOfAll(_)
OrOfAll(S) ==
    IF S = {} THEN <<>>
    ELSE LET x == CHOOSE y \in S : TRUE IN OrBits(x, OrOfAll(S \ {x}))

(* The bits of the singletons merged into bucket b of a source under a vote *)
(* of the entry that h holds.                                               *)
MergedBits(h, index, source, b) ==
    { history[i].bits : i \in { j \in HeldBy(h) :
          /\ ~history[j].err
          /\ ToString(history[j].index) = index
          /\ history[j].source = source
          /\ history[j].bucket = b } }

(* C7: in every summary emitted, each source's array has 120 positions and  *)
(* position b renders the OR of the bits of every singleton merged for that *)
(* slot, vote and source with bucket index b, nothing where there was none. *)
C7_BucketsHoldTheOr ==
    [][\A h \in Addresses :
          Leaves(h, "submit") =>
              \A j \in DOMAIN LastCall.body.attestations :
                  LET entry == LastCall.body.attestations[j]
                  IN  \A source \in DOMAIN entry.buckets :
                          entry.buckets[source] =
                              [p \in 1..120 |->
                                  FmtSharpHex(OrOfAll(MergedBits(
                                      h, entry.committee_index, source, p - 1)))]]_vars

(* The singletons of the merge streams. *)
Singletons ==
    { a \in Attestations(Slots, MergeVotesAndBits) :
          a.aggregationBits \in {<<5>>, <<6>>, <<9>>} }

(* The table after the merges of a and then of b, both from one source. *)
MergedInTurn(table, h, a, b, bucket) ==
    MergeAttestation(MergeAttestation(table, h, a, bucket).table, h, b, bucket).table

SameLength(x, y) == BitlistLen(x) = BitlistLen(y)

(* C8, as claimed: when a singleton a is merged, any singleton b of the     *)
(* same slot, vote, source and bucket merged next leaves the table, and so  *)
(* the summary, that b merged first and a next would have left.             *)
C8_MergeOrderIrrelevant ==
    [][\A h \in Addresses, b \in Singletons :
          (Leaves(h, "merge") /\ b.slot = ev[h].slot /\ Key(b) = Key(ev[h])) =>
              LET bucket == WholeMs(ev[h].delay) % 100
              IN  MergeAttestation(attestationSummaries', h, b, bucket).table
                      = MergedInTurn(attestationSummaries, h, b, ev[h], bucket)]_vars

(* C8, amended: the same, for singletons a and b whose bitlists have the    *)
(* length of each other and of the bitlist already in the bucket, if any.   *)
C8_MergeOrderIrrelevantEqualLengths ==
    [][\A h \in Addresses, b \in Singletons :
          LET bucket == WholeMs(ev[h].delay) % 100
              old == BucketsAt(attestationSummaries, ev[h].slot, Key(ev[h]), h)[bucket]
          IN  (/\ Leaves(h, "merge")
               /\ b.slot = ev[h].slot /\ Key(b) = Key(ev[h])
               /\ SameLength(ev[h].aggregationBits, b.aggregationBits)
               /\ old = <<>> \/ SameLength(old, b.aggregationBits)) =>
                  MergeAttestation(attestationSummaries', h, b, bucket).table
                      = MergedInTurn(attestationSummaries, h, b, ev[h], bucket)]_vars

(* C8 witness: two singletons of one slot, vote, source and bucket with     *)
(* different bits of equal length were merged, and the bucket holds both.   *)
C8_Witness ==
    \E i, j \in DOMAIN history :
        /\ i < j
        /\ history[i].slot = history[j].slot /\ history[i].key = history[j].key
        /\ history[i].source = history[j].source
        /\ history[i].bucket = history[j].bucket
        /\ history[i].bits = <<5>> /\ history[j].bits = <<6>>
        /\ history[i].at = "table" /\ history[j].at = "table"
        /\ BucketsAt(attestationSummaries, history[i].slot, history[i].key,
                     history[i].source)[history[i].bucket] = <<7>>

(* C9: a singleton that was already processed for an entry still in the     *)
(* table changes nothing of that entry when it is processed again.          *)
C9_ReplayChangesNothing ==
    [][\A h \in Addresses :
          (Leaves(h, "merge")
             /\ \E i \in DOMAIN history :
                    /\ history[i].at = "table"
                    /\ history[i].slot = ev[h].slot
                    /\ history[i].key = Key(ev[h])
                    /\ history[i].source = h
                    /\ history[i].bucket = WholeMs(ev[h].delay) % 100
                    /\ history[i].bits = ev[h].aggregationBits)
              => attestationSummaries'[ev[h].slot] = attestationSummaries[ev[h].slot]]_vars

(* No bit below the length bit is set in the bitlist of h's event. *)
NoBitSet(h) == pc[h] # "idle" /\ ev[h].aggregationBits = <<4>>

(* C10, as claimed: an event with no aggregation bit set is discarded: no   *)
(* step of its handler changes the table or calls the submitter.            *)
C10_NoBitsDiscarded ==
    [][\A h \in Addresses :
          (NoBitSet(h) /\ pc'[h] # pc[h]) =>
              /\ attestationSummaries' = attestationSummaries
              /\ submitted' = submitted]_vars

(* C10, amended: an event with no aggregation bit set that passes the delay *)
(* gate is handled as an aggregate: it never changes the table, never       *)
(* yields a summary call, and yields one aggregate call carrying its bits   *)
(* unless the node version cannot be had.                                   *)
C10_NoBitsHandledAsAggregate ==
    [][/\ \A h \in Addresses, a \in Attestations(Slots, VotesAndBits), d \in Delays :
             (Receive(h, a, d, MaxEvents) /\ a.aggregationBits = <<4>>
                /\ d.sec >= 0 /\ d.nsec >= 0 /\ (d.sec < 12 \/ d = [sec |-> 12, nsec |-> 0]))
                 => pc'[h] = "aggregate"
       /\ \A h \in Addresses :
             (NoBitSet(h) /\ pc'[h] # pc[h]) =>
                 /\ pc[h] = "aggregate"
                 /\ attestationSummaries' = attestationSummaries
                 /\ \/ submitted' = submitted
                    \/ /\ OneCallMade
                       /\ LastCall.op = "SubmitAggregateAttestation"
                       /\ LastCall.body.aggregation_bits = "0x04"
                       /\ LastCall.body.slot = ToString(ev[h].slot)]_vars

(* C10 witness: the only call made is an aggregate call for a bitlist with  *)
(* no bit set, and the table is empty.                                      *)
C10_Witness ==
    /\ Len(submitted) = 1
    /\ submitted[1].op = "SubmitAggregateAttestation"
    /\ submitted[1].body.aggregation_bits = "0x04"
    /\ attestationSummaries = EmptyMap
    /\ \A h \in Addresses : pc[h] = "idle"

(* The delay passes the gate. *)
PassesGate(d) ==
    d.sec >= 0 /\ d.nsec >= 0 /\ (d.sec < 12 \/ d = [sec |-> 12, nsec |-> 0])

(* Handler h works on an event with two aggregation bits set. *)
SeveralBitsSet(h) == pc[h] # "idle" /\ ev[h].aggregationBits = <<7>>

(* C11: an event with more than one aggregation bit set that passes the     *)
(* delay gate goes to the aggregate handler, which never changes the table  *)
(* or takes an entry from it, and makes exactly one aggregate call carrying *)
(* the event, the only other outcome being no call at all (node_version     *)
(* failed).                                                                 *)
C11_AggregateOneCallNoMutation ==
    [][/\ \A h \in Addresses, a \in Attestations(Slots, VotesAndBits), d \in Delays :
             (Receive(h, a, d, MaxEvents) /\ a.aggregationBits = <<7>> /\ PassesGate(d))
                 => /\ pc'[h] = "aggregate"
                    /\ attestationSummaries' = attestationSummaries
                    /\ submitted' = submitted
       /\ \A h \in Addresses :
             (SeveralBitsSet(h) /\ pc'[h] # pc[h]) =>
                 /\ pc[h] = "aggregate" /\ pc'[h] = "idle"
                 /\ attestationSummaries' = attestationSummaries
                 /\ lastSlotSummaries' = lastSlotSummaries
                 /\ history' = history
                 /\ \/ submitted' = submitted
                    \/ /\ OneCallMade
                       /\ LastCall.op = "SubmitAggregateAttestation"
                       /\ LastCall.body.source = NodeVersion(h)
                       /\ LastCall.body.aggregation_bits = "0x07"
                       /\ LastCall.body.slot = ToString(ev[h].slot)
                       /\ LastCall.body.committee_index = ToString(ev[h].index)
                       /\ LastCall.body.delay_ms = ToString(WholeMs(ev[h].delay))]_vars

(* C11 witness: an aggregate with two bits set, 250 ms late, was submitted  *)
(* and the table is empty.                                                  *)
C11_Witness ==
    /\ Len(submitted) = 1
    /\ submitted[1].op = "SubmitAggregateAttestation"
    /\ submitted[1].body.aggregation_bits = "0x07"
    /\ submitted[1].body.delay_ms = "250"
    /\ attestationSummaries = EmptyMap
    /\ \A h \in Addresses : pc[h] = "idle"

----------------------------------------------------------------------------
(* The immediate submitter (services/submitter/immediate): every Submit...  *)
(* call starts one goroutine per base URL, which POSTs the body and counts  *)
(* the outcome.                                                             *)

Operations ==
    {"block delay", "head delay", "aggregate attestation", "attestation summary"}

Results == {"succeeded", "failed"}

(* The path each operation posts to. *)
Endpoint(op) ==
    CASE op = "block delay" -> "/v1/blockdelay"
      [] op = "head delay" -> "/v1/headdelay"
      [] op = "aggregate attestation" -> "/v1/aggregateattestation"
      [] op = "attestation summary" -> "/v1/attestationsummary"

(* A configured base URL: its text without a trailing slash, and whether *)
(* it was given with one.                                                *)
BaseURLText(u) == u.text \o (IF u.slash THEN "/" ELSE "")

(* strings.TrimSuffix(baseURL.String(), "/") *)
TrimSuffix(u) == u.text

Collector(n, slash) == [text |-> "http://c" \o ToString(n), slash |-> slash]

(* The lists of collectors the service is configured with. *)
BaseURLParameters ==
    { <<Collector(1, FALSE), Collector(2, TRUE)>>,
      <<Collector(1, FALSE), Collector(2, TRUE), Collector(3, FALSE)>> }

Bodies == {"{\"slot\":\"1\"}", "{\"slot\":\"2\"}"}

(* The contexts a caller passes; http.NewRequestWithContext refuses nil. *)
Contexts == {"ctx", "nil"}

(* What http.DefaultClient.Do comes back with: an error, or a response *)
(* with this status.                                                   *)
Responses == {"refused", "200", "500"}

(* registerPrometheusMetrics: both vectors, with no sample yet. *)
NewCounterVec == [nil |-> FALSE, count |-> [k \in Operations \X Results |-> 0]]

NewHistogramVec == [nil |-> FALSE, count |-> [op \in Operations |-> 0]]

(* The metrics after monitorSubmission(operation, succeeded, delay). *)
monitorSubmission(metrics, operation, succeeded) ==
    IF metrics.counter.nil
    THEN metrics
    ELSE IF succeeded
    THEN [counter |-> [metrics.counter EXCEPT
                          !.count[<<operation, "succeeded">>] = @ + 1],
          timer |-> [metrics.timer EXCEPT !.count[operation] = @ + 1]]
    ELSE [counter |-> [metrics.counter EXCEPT
                          !.count[<<operation, "failed">>] = @ + 1],
          timer |-> metrics.timer]

Metrics == [counter |-> submitterCounter, timer |-> submitterTimer]

SetMetrics(metrics) ==
    /\ submitterCounter' = metrics.counter
    /\ submitterTimer' = metrics.timer

(* The engine is not running. *)
NoEngine ==
    /\ attestationSummaries = EmptyMap
    /\ attestationsMu = {}
    /\ pc = [h \in Addresses |-> "idle"]
    /\ ev = [h \in Addresses |-> NoEvent]
    /\ lastSlotSummaries = [h \in Addresses |-> EmptyMap]
    /\ submitted = <<>>
    /\ eventsReceived = 0
    /\ events = 0
    /\ history = <<>>

(* immediate.New: the base URLs without their trailing slash, and the *)
(* metrics registered when the monitor presents to prometheus.        *)
InitImmediate ==
    /\ \E parameters \in BaseURLParameters :
          baseURLs = [i \in DOMAIN parameters |-> TrimSuffix(parameters[i])]
    /\ \E presenter \in {"prometheus", "console"} :
          IF presenter = "prometheus"
          THEN submitterCounter = NewCounterVec /\ submitterTimer = NewHistogramVec
          ELSE submitterCounter = [nil |-> TRUE] /\ submitterTimer = [nil |-> TRUE]
    /\ tasks = <<>>
    /\ calls = 0
    /\ posts = EmptyBag
    /\ crashed = FALSE
    /\ NoEngine
    /\ NoFetch
    /\ NoMetrics
    /\ NoClock
    /\ NoObservers

(* Mutant: the POST is made in the call, not in a goroutine. *)
NewTaskRunInCall(call, op, ctx, body, baseURL) ==
    [call |-> call, op |-> op, ctx |-> ctx, body |-> body, baseURL |-> baseURL,
     pc |-> "done", resp |-> "200", closed |-> "ok"]

(* The goroutine started for one base URL. *)
NewTask(call, op, ctx, body, baseURL) ==
    [call |-> call, op |-> op, ctx |-> ctx, body |-> body, baseURL |-> baseURL,
     pc |-> "start", resp |-> "none", closed |-> "none"]

(* SubmitBlockDelay, SubmitHeadDelay, SubmitAggregateAttestation and      *)
(* SubmitAttestationSummary: one go statement per base URL, then return.  *)
SubmitCall(op, ctx, body) ==
    /\ ~crashed
    /\ Len(tasks) + Len(baseURLs) <= MaxTasks
    /\ calls' = calls + 1
    /\ tasks' = tasks \o [i \in DOMAIN baseURLs |->
                             NewTask(calls + 1, op, ctx, body, baseURLs[i])]
    /\ UNCHANGED <<baseURLs, posts, submitterCounter, submitterTimer, crashed>>
    /\ UNCHANGED notImmediateVars

(* Whether the operation's goroutine tests resp for nil before it closes *)
(* the body: submitAggregateAttestation does not.                        *)
ChecksResponse(op) == op # "aggregate attestation"

(* http.NewRequestWithContext fails on a nil context. *)
RequestFails(ctx) == ctx = "nil"

(* The request handed to http.DefaultClient.Do. *)
PostOf(task) ==
    [call |-> task.call, url |-> task.baseURL \o Endpoint(task.op), body |-> task.body]

(* submit<Operation> up to the call of http.DefaultClient.Do: the request  *)
(* is built; when that fails the failure is counted, and setting the       *)
(* header of the nil request panics.                                       *)
Start(t) ==
    /\ ~crashed
    /\ t \in DOMAIN tasks
    /\ tasks[t].pc = "start"
    /\ IF RequestFails(tasks[t].ctx)
       THEN /\ SetMetrics(monitorSubmission(Metrics, tasks[t].op, FALSE))
            /\ tasks' = [tasks EXCEPT ![t].pc = "panicked"]
            /\ crashed' = TRUE
            /\ UNCHANGED posts
       ELSE /\ posts' = posts (+) SetToBag({PostOf(tasks[t])})
            /\ tasks' = [tasks EXCEPT ![t].pc = "wait"]
            /\ UNCHANGED <<submitterCounter, submitterTimer, crashed>>
    /\ UNCHANGED <<baseURLs, calls>>
    /\ UNCHANGED notImmediateVars

(* The metrics after the goroutine's code that follows Do, and whether it *)
(* panicked on the way.                                                   *)
AfterDo(metrics, op, resp, closeErr) ==
    LET sent == IF resp = "refused"
                THEN monitorSubmission(metrics, op, FALSE)
                ELSE metrics
    IN  IF resp = "refused" /\ ~ChecksResponse(op)
        THEN [panic |-> TRUE, metrics |-> sent]
        ELSE IF resp # "refused" /\ closeErr
        THEN [panic |-> FALSE, metrics |-> monitorSubmission(sent, op, FALSE)]
        ELSE [panic |-> FALSE, metrics |-> monitorSubmission(sent, op, TRUE)]

(* http.DefaultClient.Do returns, and submit<Operation> runs to its end. *)
Finish(t, resp, closeErr) ==
    /\ ~crashed
    /\ t \in DOMAIN tasks
    /\ tasks[t].pc = "wait"
    /\ resp = "refused" => ~closeErr
    /\ LET after == AfterDo(Metrics, tasks[t].op, resp, closeErr)
       IN  /\ SetMetrics(after.metrics)
           /\ crashed' = after.panic
           /\ tasks' = [tasks EXCEPT
                  ![t].pc = IF after.panic THEN "panicked" ELSE "done",
                  ![t].resp = resp,
                  ![t].closed = IF resp = "refused" THEN "none"
                                ELSE IF closeErr THEN "error" ELSE "ok"]
    /\ UNCHANGED <<baseURLs, calls, posts>>
    /\ UNCHANGED notImmediateVars

NextImmediate ==
    \/ \E op \in Operations, ctx \in Contexts, body \in Bodies : SubmitCall(op, ctx, body)
    \/ \E t \in 1..MaxTasks : Start(t)
    \/ \E t \in 1..MaxTasks, resp \in Responses, closeErr \in BOOLEAN :
          Finish(t, resp, closeErr)

SpecImmediate == InitImmediate /\ [][NextImmediate]_vars

----------------------------------------------------------------------------
(* Properties of the immediate submitter. *)

(* The goroutines of call c. *)
TasksOfCall(c) == {t \in DOMAIN tasks : tasks[t].call = c}

(* Nothing more will happen to the calls made so far. *)
Halted == crashed \/ \A t \in DOMAIN tasks : tasks[t].pc = "done"

(* The URL of collector n for an operation. *)
CollectorURL(n, op) ==
    "http://c" \o ToString(n) \o
        (CASE op = "block delay" -> "/v1/blockdelay"
           [] op = "head delay" -> "/v1/headdelay"
           [] op = "aggregate attestation" -> "/v1/aggregateattestation"
           [] op = "attestation summary" -> "/v1/attestationsummary")

(* C12: a call of any of the four operations ends with exactly one POST per *)
(* collector, to the collector's base URL plus the operation's path, each   *)
(* with the body of the call: no POST is made twice and, once nothing more  *)
(* can happen in a run whose calls all had a usable context, none is        *)
(* missing.                                                                 *)
C12_OnePostPerCollector ==
    /\ \A r \in BagToSet(posts) :
          /\ CopiesIn(r, posts) = 1
          /\ \E t \in TasksOfCall(r.call), n \in DOMAIN baseURLs :
                r.url = CollectorURL(n, tasks[t].op) /\ r.body = tasks[t].body
    /\ (Halted /\ \A t \in DOMAIN tasks : tasks[t].ctx = "ctx") =>
          \A t \in DOMAIN tasks :
                  \A n \in DOMAIN baseURLs :
                      CopiesIn([call |-> tasks[t].call,
                                url |-> CollectorURL(n, tasks[t].op),
                                body |-> tasks[t].body], posts) = 1

(* C13: a connection error on one POST never ends the process, and leaves   *)
(* every other goroutine able to take its next step.                        *)
C13_FailureLeavesOthersRunning ==
    \A t \in DOMAIN tasks :
        tasks[t].resp = "refused" =>
            /\ ~crashed
            /\ \A u \in DOMAIN tasks :
                  /\ tasks[u].pc = "start" => ENABLED Start(u)
                  /\ tasks[u].pc = "wait" => ENABLED Finish(u, "200", FALSE)

(* The goroutines of an operation that came to their end, or to a panic, *)
(* with an outcome among these.                                          *)
Ended(op, resps, closes) ==
    {t \in DOMAIN tasks :
        /\ tasks[t].op = op /\ tasks[t].pc \in {"done", "panicked"}
        /\ tasks[t].resp \in resps /\ tasks[t].closed \in closes}

(* C14: every POST makes one count: with the metrics registered, an         *)
(* operation's failed count is the number of its POSTs that ended in a      *)
(* request, connection or close error, and its succeeded count and its      *)
(* number of duration observations are the number of its other POSTs.       *)
C14_OneCountPerPost ==
    ~submitterCounter.nil =>
        \A op \in Operations :
            /\ submitterCounter.count[<<op, "failed">>] =
                   Cardinality(Ended(op, {"none", "refused"}, {"none"})
                                   \cup Ended(op, {"200", "500"}, {"error"}))
            /\ submitterCounter.count[<<op, "succeeded">>] =
                   Cardinality(Ended(op, {"200", "500"}, {"ok"}))
            /\ submitterTimer.count[op] =
                   Cardinality(Ended(op, {"200", "500"}, {"ok"}))

(* C15: a POST that comes back with a response is counted as succeeded      *)
(* when the status is 2xx and the body closed without error, and as failed  *)
(* otherwise, a status that is not 2xx included.                            *)
C15_Non2xxCountsAsFailure ==
    [][\A t \in DOMAIN tasks, op \in Operations :
          (~submitterCounter.nil /\ tasks[t].op = op
             /\ tasks[t].pc = "wait" /\ tasks'[t].resp \in {"200", "500"}) =>
              LET success == tasks'[t].resp = "200" /\ tasks'[t].closed = "ok"
              IN  /\ submitterCounter'.count[<<op, "succeeded">>]
                         = submitterCounter.count[<<op, "succeeded">>]
                               + (IF success THEN 1 ELSE 0)
                  /\ submitterCounter'.count[<<op, "failed">>]
                         = submitterCounter.count[<<op, "failed">>]
                               + (IF success THEN 0 ELSE 1)]_vars

(* C16: a Submit... call returns with none of its POSTs made: it only       *)
(* starts its goroutines, whatever the goroutines of earlier calls are      *)
(* doing, and it can be made whenever the process runs, also while earlier  *)
(* POSTs wait for a collector that never answers.                           *)
C16_SubmitReturnsBeforeAnyPost ==
    /\ [][calls' # calls =>
             /\ posts' = posts
             /\ submitterCounter' = submitterCounter
             /\ submitterTimer' = submitterTimer
             /\ Len(tasks') = Len(tasks) + Len(baseURLs)
             /\ \A t \in DOMAIN tasks : tasks'[t] = tasks[t]
             /\ \A t \in DOMAIN tasks' \ DOMAIN tasks :
                   tasks'[t].pc = "start" /\ tasks'[t].call = calls']_vars
    /\ [](( ~crashed /\ Len(tasks) + Len(baseURLs) <= MaxTasks) =>
             \A op \in Operations :
                 ENABLED SubmitCall(op, "ctx", "{\"slot\":\"1\"}"))

(* C16 witness: a second call was made while both POSTs of the first were   *)
(* in flight, and one of them has since completed.                          *)
C16_Witness ==
    /\ calls = 2
    /\ Len(tasks) = 4
    /\ tasks[1].pc = "wait" /\ tasks[2].pc = "wait"
    /\ tasks[3].pc = "done" /\ tasks[4].pc = "start"

----------------------------------------------------------------------------
(* fetchClient (main): the address-keyed cache of consensus clients.        *)
(* A client is the number httpclient.New gave it: its place in constructed. *)

ClientAddresses == {"a1", "a2"}

(* clients[address] on a map that may be nil: the client, or 0 when absent. *)
ClientAt(m, address) ==
    IF m.nil THEN 0
    ELSE IF address \in DOMAIN m.map THEN m.map[address] ELSE 0

(* if clients == nil { clients = make(...) } *)
MakeIfNil(m) == IF m.nil THEN [nil |-> FALSE, map |-> <<>>] ELSE m

(* clients[address] = client *)
StoreClient(m, address, client) ==
    [nil |-> FALSE,
     map |-> [a \in DOMAIN m.map \cup {address} |->
                 IF a = address THEN client ELSE m.map[a]]]

FetchFrame == UNCHANGED notFetchVars

(* A caller enters fetchClient(ctx, address). *)
FetchCall(f, address) ==
    /\ fetch[f].pc = "idle"
    /\ fetches < MaxFetches
    /\ fetches' = fetches + 1
    /\ fetch' = [fetch EXCEPT ![f] = [pc |-> "rlock", address |-> address]]
    /\ UNCHANGED <<clients, clientsMu, constructed, fetched>>
    /\ FetchFrame

(* clientsMu.RLock() *)
FetchRLock(f) ==
    /\ fetch[f].pc = "rlock"
    /\ clientsMu.writer = {}
    /\ clientsMu' = [clientsMu EXCEPT !.readers = @ \cup {f}]
    /\ fetch' = [fetch EXCEPT ![f].pc = "lookup"]
    /\ UNCHANGED <<clients, constructed, fetched, fetches>>
    /\ FetchFrame

(* The map is made if nil and read, and clientsMu.RUnlock(). *)
FetchLookup(f) ==
    /\ fetch[f].pc = "lookup"
    /\ clients' = MakeIfNil(clients)
    /\ clientsMu' = [clientsMu EXCEPT !.readers = @ \ {f}]
    /\ LET client == ClientAt(clients', fetch[f].address)
       IN  fetch' = [fetch EXCEPT ![f] =
                        [pc |-> IF client # 0 THEN "return" ELSE "new",
                         address |-> fetch[f].address, client |-> client]]
    /\ UNCHANGED <<constructed, fetched, fetches>>
    /\ FetchFrame

(* httpclient.New: a new client, or an error, which fetchClient returns. *)
FetchNew(f) ==
    /\ fetch[f].pc = "new"
    /\ \E failed \in BOOLEAN :
          IF failed
          THEN /\ fetch' = [fetch EXCEPT ![f] = [pc |-> "idle"]]
               /\ fetched' = fetched \cup {<<fetch[f].address, 0>>}
               /\ UNCHANGED constructed
          ELSE /\ constructed' = Append(constructed, fetch[f].address)
               /\ fetch' = [fetch EXCEPT ![f].pc = "lock",
                                         ![f].client = Len(constructed) + 1]
               /\ UNCHANGED fetched
    /\ UNCHANGED <<clients, clientsMu, fetches>>
    /\ FetchFrame

(* clientsMu.Lock() *)
FetchLock(f) ==
    /\ fetch[f].pc = "lock"
    /\ clientsMu.writer = {} /\ clientsMu.readers = {}
    /\ clientsMu' = [clientsMu EXCEPT !.writer = {f}]
    /\ fetch' = [fetch EXCEPT ![f].pc = "insert"]
    /\ UNCHANGED <<clients, constructed, fetched, fetches>>
    /\ FetchFrame

(* clients[address] = client and clientsMu.Unlock() *)
FetchInsert(f) ==
    /\ fetch[f].pc = "insert"
    /\ clients' = StoreClient(clients, fetch[f].address, fetch[f].client)
    /\ clientsMu' = [clientsMu EXCEPT !.writer = {}]
    /\ fetch' = [fetch EXCEPT ![f].pc = "return"]
    /\ UNCHANGED <<constructed, fetched, fetches>>
    /\ FetchFrame

(* return client, nil *)
FetchReturn(f) ==
    /\ fetch[f].pc = "return"
    /\ fetched' = fetched \cup {<<fetch[f].address, fetch[f].client>>}
    /\ fetch' = [fetch EXCEPT ![f] = [pc |-> "idle"]]
    /\ UNCHANGED <<clients, clientsMu, constructed, fetches>>
    /\ FetchFrame

NextFetch ==
    \/ \E f \in Fetchers, address \in ClientAddresses : FetchCall(f, address)
    \/ \E f \in Fetchers : FetchRLock(f)
    \/ \E f \in Fetchers : FetchLookup(f)
    \/ \E f \in Fetchers : FetchNew(f)
    \/ \E f \in Fetchers : FetchLock(f)
    \/ \E f \in Fetchers : FetchInsert(f)
    \/ \E f \in Fetchers : FetchReturn(f)

InitFetch == NoFetch /\ NoEngine /\ NoImmediate /\ NoMetrics /\ NoClock /\ NoObservers

SpecFetch == InitFetch /\ [][NextFetch]_vars

(* C17: at most one client is ever constructed per address, and every       *)
(* fetchClient call for an address that returned a client returned the      *)
(* same one.                                                                *)
C17_OneClientPerAddress ==
    \A address \in ClientAddresses :
        /\ Cardinality({i \in DOMAIN constructed : constructed[i] = address}) <= 1
        /\ Cardinality({r \in fetched : r[1] = address /\ r[2] # 0}) <= 1

----------------------------------------------------------------------------
(* registerMetrics and the observation functions of the blocks package      *)
(* (services/blocks/events/metrics.go) and of the immediate submitter.      *)

(* What monitor is: nil, or a service with this presenter. *)
Monitors == {"nil", "prometheus", "console"}

(* The metrics of each package, in the order registerPrometheusMetrics *)
(* creates and registers them.                                         *)
BlocksMetrics ==
    <<"probec_blocks_delay_seconds", "probec_blocks_latest_timestamp",
      "probec_blocks_events_total">>

SubmitterMetrics ==
    <<"probec_submitter_requests_total", "probec_submitter_duration_seconds">>

(* registerPrometheusMetrics from its i-th metric on: each is created and   *)
(* handed to prometheus.Register, which refuses a name it already has; the  *)
(* first refusal ends the function. made is the number of metrics created.  *)
RECURSIVE RegisterFrom(_, _, _, _)
RegisterFrom(names, i, reg, ops) ==
    IF i > Len(names)
    THEN [err |-> FALSE, made |-> Len(names), registry |-> reg, ops |-> ops]
    ELSE LET name == names[i]
             ops2 == [ops EXCEPT ![name].created = @ + 1, ![name].registers = @ + 1]
         IN  IF name \in reg
             THEN [err |-> TRUE, made |-> i, registry |-> reg, ops |-> ops2]
             ELSE RegisterFrom(names, i + 1, reg \cup {name}, ops2)

(* Mutant: the sentinel is never seen as set. *)
AlreadyRegisteredNever(sentinel) == FALSE

(* if latestTimestamp != nil, if submitterCounter != nil *)
AlreadyRegistered(sentinel) == ~sentinel.nil

(* What registerMetrics does after the sentinel test: nothing, or *)
(* registerPrometheusMetrics.                                      *)
RegistersWithPrometheus(sentinel, monitor) ==
    /\ ~AlreadyRegistered(sentinel)
    /\ monitor = "prometheus"

MetricsFrame ==
    UNCHANGED <<engineVars, fetchVars, clockVars, observerVars, baseURLs, tasks,
                calls, posts>>

MetricsCall ==
    /\ ~crashed
    /\ metricsCalls < MaxMetricsCalls
    /\ metricsCalls' = metricsCalls + 1

(* A metric as registerPrometheusMetrics leaves it: the old value when it *)
(* was not reached, a new metric otherwise.                               *)
Made(old, new, reached) == IF reached THEN new ELSE old

(* blocks: registerMetrics(ctx, monitor) *)
RegisterBlocksMetrics(monitor) ==
    /\ MetricsCall
    /\ metricsSeen' = Append(metricsSeen, <<"blocks", monitor>>)
    /\ IF RegistersWithPrometheus(latestTimestamp, monitor)
       THEN LET r == RegisterFrom(BlocksMetrics, 1, registry, metricOps)
            IN  /\ delayTimer' = Made(delayTimer, [nil |-> FALSE, n |-> 0], r.made >= 1)
                /\ latestTimestamp' =
                       Made(latestTimestamp, [nil |-> FALSE, n |-> 0], r.made >= 2)
                /\ blockEventsReceived' =
                       Made(blockEventsReceived, [nil |-> FALSE, n |-> 0], r.made >= 3)
                /\ registry' = r.registry
                /\ metricOps' = r.ops
                /\ metricsResult' = IF r.err THEN "error" ELSE "nil"
       ELSE /\ metricsResult' = "nil"
            /\ UNCHANGED <<delayTimer, latestTimestamp, blockEventsReceived,
                           registry, metricOps>>
    /\ UNCHANGED <<submitterCounter, submitterTimer, crashed>>
    /\ MetricsFrame

(* immediate: registerMetrics(ctx, monitor) *)
RegisterSubmitterMetrics(monitor) ==
    /\ MetricsCall
    /\ metricsSeen' = Append(metricsSeen, <<"submitter", monitor>>)
    /\ IF RegistersWithPrometheus(submitterCounter, monitor)
       THEN LET r == RegisterFrom(SubmitterMetrics, 1, registry, metricOps)
            IN  /\ submitterCounter' = Made(submitterCounter, NewCounterVec, r.made >= 1)
                /\ submitterTimer' = Made(submitterTimer, NewHistogramVec, r.made >= 2)
                /\ registry' = r.registry
                /\ metricOps' = r.ops
                /\ metricsResult' = IF r.err THEN "error" ELSE "nil"
       ELSE /\ metricsResult' = "nil"
            /\ UNCHANGED <<submitterCounter, submitterTimer, registry, metricOps>>
    /\ UNCHANGED <<delayTimer, latestTimestamp, blockEventsReceived, crashed>>
    /\ MetricsFrame

(* blocks: monitorEventProcessed(delay); a method call on a nil metric *)
(* panics.                                                             *)
MonitorEventProcessed ==
    /\ MetricsCall
    /\ IF latestTimestamp.nil
       THEN UNCHANGED <<delayTimer, latestTimestamp, blockEventsReceived, crashed>>
       ELSE IF blockEventsReceived.nil \/ delayTimer.nil
       THEN /\ crashed' = TRUE
            /\ latestTimestamp' = [latestTimestamp EXCEPT !.n = @ + 1]
            /\ UNCHANGED <<delayTimer, blockEventsReceived>>
       ELSE /\ latestTimestamp' = [latestTimestamp EXCEPT !.n = @ + 1]
            /\ blockEventsReceived' = [blockEventsReceived EXCEPT !.n = @ + 1]
            /\ delayTimer' = [delayTimer EXCEPT !.n = @ + 1]
            /\ UNCHANGED crashed
    /\ UNCHANGED <<submitterCounter, submitterTimer, registry, metricOps,
                   metricsSeen, metricsResult>>
    /\ MetricsFrame

(* immediate: monitorSubmission(operation, succeeded, delay) *)
MonitorSubmission(operation, succeeded) ==
    /\ MetricsCall
    /\ IF ~submitterCounter.nil /\ submitterTimer.nil /\ succeeded
       THEN /\ crashed' = TRUE
            /\ UNCHANGED <<submitterCounter, submitterTimer>>
       ELSE /\ SetMetrics(monitorSubmission(Metrics, operation, succeeded))
            /\ UNCHANGED crashed
    /\ UNCHANGED <<delayTimer, latestTimestamp, blockEventsReceived, registry,
                   metricOps, metricsSeen, metricsResult>>
    /\ MetricsFrame

NextMetrics ==
    \/ \E monitor \in Monitors : RegisterBlocksMetrics(monitor)
    \/ \E monitor \in Monitors : RegisterSubmitterMetrics(monitor)
    \/ MonitorEventProcessed
    \/ \E operation \in Operations, succeeded \in BOOLEAN :
          MonitorSubmission(operation, succeeded)

InitMetrics == NoMetrics /\ NoEngine /\ NoImmediate /\ NoFetch /\ NoClock /\ NoObservers

SpecMetrics == InitMetrics /\ [][NextMetrics]_vars

(* registerMetrics was called for the package with a prometheus monitor. *)
SeenPrometheus(package) ==
    \E i \in DOMAIN metricsSeen : metricsSeen[i] = <<package, "prometheus">>

(* C18: whatever registerMetrics calls were made, each metric of a package  *)
(* was created and handed to the registry exactly once if one of the calls  *)
(* had a prometheus monitor, and never otherwise, in which case the         *)
(* package's metrics are nil and observations change nothing; a call that   *)
(* finds the sentinel set returns nil and creates and registers nothing;    *)
(* no call fails and no observation panics.                                 *)
C18_RegisterMetricsOnce ==
    /\ [](/\ \A package \in {"blocks", "submitter"}, name \in AllMetricNames :
                name \in MetricNames[package] =>
                    IF SeenPrometheus(package)
                    THEN /\ metricOps[name] = [created |-> 1, registers |-> 1]
                         /\ name \in registry
                    ELSE /\ metricOps[name] = [created |-> 0, registers |-> 0]
                         /\ name \notin registry
          /\ ~SeenPrometheus("blocks") =>
                delayTimer.nil /\ latestTimestamp.nil /\ blockEventsReceived.nil
          /\ ~SeenPrometheus("submitter") =>
                submitterCounter.nil /\ submitterTimer.nil
          /\ metricsResult # "error"
          /\ ~crashed)
    /\ [][\A monitor \in Monitors :
             /\ (RegisterBlocksMetrics(monitor) /\ ~latestTimestamp.nil) =>
                   /\ metricsResult' = "nil"
                   /\ UNCHANGED <<metricOps, registry, delayTimer, latestTimestamp,
                                  blockEventsReceived>>
             /\ (RegisterSubmitterMetrics(monitor) /\ ~submitterCounter.nil) =>
                   /\ metricsResult' = "nil"
                   /\ UNCHANGED <<metricOps, registry, submitterCounter,
                                  submitterTimer>>]_vars

(* C18 witness: after a console call and two prometheus calls for blocks    *)
(* and two prometheus calls for the submitter, every metric is registered   *)
(* once.                                                                    *)
C18_Witness ==
    /\ metricsSeen = << <<"blocks", "console">>, <<"blocks", "prometheus">>,
                        <<"submitter", "prometheus">>, <<"blocks", "prometheus">>,
                        <<"submitter", "prometheus">> >>
    /\ registry = AllMetricNames
    /\ \A name \in AllMetricNames : metricOps[name].created = 1

----------------------------------------------------------------------------
(* The chain-time service (services/chaintime): conversions between wall    *)
(* time and slots and epochs. An instant is an integer number of time       *)
(* units; a duration likewise.                                              *)

Geneses == {0, 100}

SlotDurations == {1, 5, 12}

SlotsPerEpochValues == {1, 2, 32}

ClockStates ==
    [genesis : Geneses, slotDuration : SlotDurations,
     slotsPerEpoch : SlotsPerEpochValues]

ClockSlots == 0 .. MaxClockSlot

ClockEpochs == 0 .. MaxClockEpoch

(* The instants handed to the clock, as offsets from genesis: from before *)
(* genesis to past the start of slot MaxClockSlot + 1 of the longest slot *)
(* duration.                                                              *)
ClockOffsets == (0 - PreGenesis) .. MaxOffset

(* Mutant: the slot starts one unit early. *)
StartOfSlotEarly(c, slot) == c.genesis + slot * c.slotDuration - 1

(* start_of_slot(s) = genesis + s * slot_duration *)
StartOfSlot(c, slot) == c.genesis + slot * c.slotDuration

(* Mutant: an epoch is taken to be one slot long. *)
StartOfEpochOfOneSlot(c, epoch) == c.genesis + epoch * c.slotDuration

(* start_of_epoch(e) = genesis + e * slots_per_epoch * slot_duration *)
StartOfEpoch(c, epoch) == c.genesis + epoch * c.slotsPerEpoch * c.slotDuration

(* Mutant: the difference is divided whatever its sign. *)
TimestampToSlotUnguarded(c, timestamp) ==
    (timestamp - c.genesis) \div c.slotDuration

(* Mutant: the slot is rounded up. *)
TimestampToSlotRoundedUp(c, timestamp) ==
    IF timestamp >= c.genesis
    THEN (timestamp - c.genesis + c.slotDuration - 1) \div c.slotDuration
    ELSE 0

(* timestamp_to_slot(t) = floor((t - genesis) / slot_duration) if *)
(* t >= genesis, else 0                                           *)
TimestampToSlot(c, timestamp) ==
    IF timestamp >= c.genesis
    THEN (timestamp - c.genesis) \div c.slotDuration
    ELSE 0

(* timestamp_to_epoch(t) = timestamp_to_slot(t) / slots_per_epoch *)
TimestampToEpoch(c, timestamp) == TimestampToSlot(c, timestamp) \div c.slotsPerEpoch

(* current_slot() = floor((now - genesis) / slot_duration) if *)
(* now >= genesis, else 0                                     *)
CurrentSlot(c, now) ==
    IF now >= c.genesis THEN (now - c.genesis) \div c.slotDuration ELSE 0

(* current_epoch() = current_slot() / slots_per_epoch *)
CurrentEpoch(c, now) == CurrentSlot(c, now) \div c.slotsPerEpoch

ClockFrame == UNCHANGED <<notClockVars, clockState>>

CallStartOfSlot(slot) ==
    /\ clockCall' = [op |-> "StartOfSlot", arg |-> slot,
                     result |-> StartOfSlot(clockState, slot)]
    /\ ClockFrame

CallStartOfEpoch(epoch) ==
    /\ clockCall' = [op |-> "StartOfEpoch", arg |-> epoch,
                     result |-> StartOfEpoch(clockState, epoch)]
    /\ ClockFrame

CallTimestampToSlot(timestamp) ==
    /\ clockCall' = [op |-> "TimestampToSlot", arg |-> timestamp,
                     result |-> TimestampToSlot(clockState, timestamp)]
    /\ ClockFrame

CallTimestampToEpoch(timestamp) ==
    /\ clockCall' = [op |-> "TimestampToEpoch", arg |-> timestamp,
                     result |-> TimestampToEpoch(clockState, timestamp)]
    /\ ClockFrame

CallCurrentSlot(now) ==
    /\ clockCall' = [op |-> "CurrentSlot", arg |-> now,
                     result |-> CurrentSlot(clockState, now)]
    /\ ClockFrame

CallCurrentEpoch(now) ==
    /\ clockCall' = [op |-> "CurrentEpoch", arg |-> now,
                     result |-> CurrentEpoch(clockState, now)]
    /\ ClockFrame

NextClock ==
    \/ \E slot \in ClockSlots : CallStartOfSlot(slot)
    \/ \E epoch \in ClockEpochs : CallStartOfEpoch(epoch)
    \/ \E offset \in ClockOffsets : CallTimestampToSlot(clockState.genesis + offset)
    \/ \E offset \in ClockOffsets : CallTimestampToEpoch(clockState.genesis + offset)
    \/ \E offset \in ClockOffsets : CallCurrentSlot(clockState.genesis + offset)
    \/ \E offset \in ClockOffsets : CallCurrentEpoch(clockState.genesis + offset)

(* The clock as constructed from what the upstream reported. *)
InitClock ==
    /\ clockState \in ClockStates
    /\ clockCall = [op |-> "none"]
    /\ NoEngine
    /\ NoImmediate
    /\ NoFetch
    /\ NoMetrics
    /\ NoObservers

SpecClock == InitClock /\ [][NextClock]_vars

(* C19: a timestamp at or after genesis lies in the slot TimestampToSlot    *)
(* gives it: at or after the start of that slot and before the start of     *)
(* the next.                                                                *)
C19_TimestampWithinItsSlot ==
    (clockCall.op = "TimestampToSlot" /\ clockCall.arg >= clockState.genesis) =>
        /\ StartOfSlot(clockState, clockCall.result) <= clockCall.arg
        /\ clockCall.arg < StartOfSlot(clockState, clockCall.result + 1)

(* C19 witness: a timestamp in the middle of slot 1 of a 12 unit clock was  *)
(* converted.                                                               *)
C19_Witness ==
    /\ clockState.slotDuration = 12
    /\ clockCall.op = "TimestampToSlot"
    /\ clockCall.arg = clockState.genesis + 17
    /\ clockCall.result = 1

(* C20: the start of a slot converts back to that slot. *)
C20_StartOfSlotRoundTrip ==
    clockCall.op = "StartOfSlot" =>
        TimestampToSlot(clockState, clockCall.result) = clockCall.arg

(* C20 witness: the start of slot 3 was computed on a clock whose genesis   *)
(* is not the zero instant.                                                 *)
C20_Witness ==
    /\ clockState.genesis = 100
    /\ clockState.slotDuration = 5
    /\ clockCall.op = "StartOfSlot"
    /\ clockCall.arg = 3
    /\ clockCall.result = 115

(* C21: the start of an epoch is the start of its first slot, that is       *)
(* genesis + e * slots_per_epoch * slot_duration.                           *)
C21_StartOfEpochIsStartOfFirstSlot ==
    clockCall.op = "StartOfEpoch" =>
        /\ clockCall.result =
               StartOfSlot(clockState, clockCall.arg * clockState.slotsPerEpoch)
        /\ clockCall.result =
               clockState.genesis
                 + clockCall.arg * clockState.slotsPerEpoch * clockState.slotDuration

(* C21 witness: the start of epoch 2 of a clock with 32 slots of 12 units   *)
(* per epoch was computed.                                                  *)
C21_Witness ==
    /\ clockState = [genesis |-> 100, slotDuration |-> 12, slotsPerEpoch |-> 32]
    /\ clockCall.op = "StartOfEpoch"
    /\ clockCall.arg = 2
    /\ clockCall.result = 868

(* C22: a timestamp strictly before genesis converts to slot 0 and to       *)
(* epoch 0, not to a negative number nor to a wrapped-around one.           *)
C22_PreGenesisIsZero ==
    (/\ clockCall.op \in {"TimestampToSlot", "TimestampToEpoch"}
     /\ clockCall.arg < clockState.genesis) =>
        clockCall.result = 0

(* C22 witness: a timestamp before genesis was converted to an epoch. *)
C22_Witness ==
    /\ clockCall.op = "TimestampToEpoch"
    /\ clockCall.arg = clockState.genesis - 2
    /\ clockState.slotDuration = 5
    /\ clockCall.result = 0

----------------------------------------------------------------------------
(* Start-up (main: startServices), the construction of an events observer   *)
(* (blocks/events: New, parseAndCheckParameters, monitorEvents) and the     *)
(* block handler. The submitter only records its calls, the metrics only    *)
(* count the observations, and registerMetrics returns nil, as it does on   *)
(* a registry that holds none of the package's metrics.                     *)

(* An error is the chain of its messages, outermost first; nil is empty. *)
Nil == <<>>

(* errors.New(msg), fmt.Errorf(msg) *)
NewError(msg) == <<msg>>

(* errors.Wrap(err, msg) *)
Wrap(err, msg) == <<msg>> \o err

(* What the client fetched for an address is. *)
Profiles ==
    {"full", "no events", "no node version", "no node syncing", "no genesis",
     "events fail", "fetch fails"}

(* client.(consensusclient.XProvider) *)
Provides(profile, capability) ==
    CASE capability = "events" -> profile # "no events"
      [] capability = "node version" -> profile # "no node version"
      [] capability = "node syncing" -> profile # "no node syncing"
      [] capability = "genesis" -> profile # "no genesis"
      [] OTHER -> TRUE

Observers == <<"blocks", "heads", "attestations">>

ObserverNames == {Observers[i] : i \in DOMAIN Observers}

SubmitterStyles ==
    {"immediate", "immediate, no base URL", "immediate, bad base URL", "console",
     "unknown"}

AddressLists == {<<>>, <<"A">>, <<"B">>, <<"A", "B">>, <<"B", "A">>}

(* What main is configured with, or the fixture of a test of New. *)
MainConfigs ==
    [mode : {"main"}, style : SubmitterStyles, addresses : AddressLists,
     profiles : [Addresses -> Profiles], enable : SUBSET ObserverNames]

TestConfigs ==
    [mode : {"test"}, style : {"console"}, addresses : {<<>>},
     profiles : [Addresses -> {"full", "events fail"}], enable : {{}}]

(* The parameters of events.New after the With... functions were applied. *)
ObserverParameters ==
    [monitor : {"nil", "console"}, chainTime : BOOLEAN,
     eventsProviders : SUBSET Addresses, nodeVersionProviders : SUBSET Addresses,
     submitter : BOOLEAN]

(* The parameters of the chain time service's New. *)
ChainTimeParameters ==
    [genesisProvider : BOOLEAN, specProvider : BOOLEAN,
     forkScheduleProvider : BOOLEAN]

(* Mutant: one error for whatever is missing. *)
NewChainTimeOneError(p) ==
    IF p.genesisProvider /\ p.specProvider /\ p.forkScheduleProvider
    THEN Nil
    ELSE Wrap(NewError("provider missing"), "problem with parameters")

(* standardchaintime.New: what it returns. *)
NewChainTime(p) ==
    IF ~p.genesisProvider
    THEN Wrap(NewError("no genesis provider specified"), "problem with parameters")
    ELSE IF ~p.specProvider
    THEN Wrap(NewError("no spec provider specified"), "problem with parameters")
    ELSE IF ~p.forkScheduleProvider
    THEN Wrap(NewError("no fork schedule provider specified"),
              "problem with parameters")
    ELSE Nil

(* parseAndCheckParameters: the error it returns. *)
parseAndCheckParameters(p) ==
    IF p.monitor = "nil" THEN NewError("monitor not supplied")
    ELSE IF ~p.chainTime THEN NewError("chain time service not supplied")
    ELSE IF p.eventsProviders = {} THEN NewError("events providers not supplied")
    ELSE IF p.nodeVersionProviders = {}
    THEN NewError("node version providers not supplied")
    ELSE IF ~p.submitter THEN NewError("submitter not supplied")
    ELSE Nil

(* monitorEvents: the error of eventsProvider.Events, wrapped. *)
monitorEvents(profile) ==
    IF profile = "events fail"
    THEN Wrap(NewError("events refused"), "failed to create events provider")
    ELSE Nil

(* The loop of New over parameters.eventsProviders, in the order the range *)
(* yields them: the addresses subscribed to, and the first error.          *)
RECURSIVE MonitorAll(_, _, _, _)
MonitorAll(order, i, profiles, opened) ==
    IF i > Len(order)
    THEN [err |-> Nil, opened |-> opened]
    ELSE LET err == monitorEvents(profiles[order[i]])
         IN  IF err # Nil
             THEN [err |-> err, opened |-> opened]
             ELSE MonitorAll(order, i + 1, profiles, opened \cup {order[i]})

(* New: its error and the addresses it subscribed to. *)
New(p, profiles, order) ==
    LET err == parseAndCheckParameters(p)
    IN  IF err # Nil
        THEN [err |-> Wrap(err, "problem with parameters"), opened |-> {}]
        ELSE MonitorAll(order, 1, profiles, {})

(* What startServices has in hand after a step of its loop over the *)
(* addresses.                                                       *)
NoProviders ==
    [err |-> Nil, eventsProviders |-> {}, nodeVersionProviders |-> {},
     firstClient |-> "nil"]

(* Mutant: a client that lacks a capability is left out and the loop goes on. *)
ObtainProvidersLeniently(addresses, i, profiles, acc) ==
    [err |-> Nil,
     eventsProviders |->
         {addresses[j] : j \in {k \in DOMAIN addresses :
                                   profiles[addresses[k]] # "fetch fails"}},
     nodeVersionProviders |->
         {addresses[j] : j \in {k \in DOMAIN addresses :
                                   profiles[addresses[k]] # "fetch fails"}},
     firstClient |-> IF addresses = <<>> THEN "nil" ELSE addresses[1]]

(* startServices: the loop that fetches a client per address and takes its *)
(* events and node version providers.                                      *)
RECURSIVE ObtainProviders(_, _, _, _)
ObtainProviders(addresses, i, profiles, acc) ==
    IF i > Len(addresses)
    THEN acc
    ELSE LET address == addresses[i]
             profile == profiles[address]
             first == IF acc.firstClient = "nil" THEN address ELSE acc.firstClient
         IN  IF profile = "fetch fails"
             THEN [acc EXCEPT !.err =
                      Wrap(Wrap(NewError("failed to connect"),
                                "failed to initiate client"),
                           "failed to fetch client")]
             ELSE IF ~Provides(profile, "events")
             THEN [acc EXCEPT !.err = NewError(address \o " does not provide events")]
             ELSE IF ~Provides(profile, "node version")
             THEN [acc EXCEPT
                      !.err = NewError(address \o " does not provide node version"),
                      !.eventsProviders = @ \cup {address},
                      !.firstClient = first]
             ELSE ObtainProviders(addresses, i + 1, profiles,
                      [acc EXCEPT !.eventsProviders = @ \cup {address},
                                  !.nodeVersionProviders = @ \cup {address},
                                  !.firstClient = first])

(* The submitter startServices makes: the error it ends with, if any. *)
StartSubmitter(style) ==
    CASE style = "immediate" -> Nil
      [] style = "console" -> Nil
      [] style = "immediate, no base URL" ->
            NewError("no submitter base URL supplied")
      [] style = "immediate, bad base URL" ->
            Wrap(Wrap(NewError("parse error"), "invalid base URL"),
                 "failed to start submitter")
      [] OTHER -> NewError("unknown submitter " \o style)

(* The observers startServices launches, in turn, each with its own range *)
(* order, until one fails.                                                *)
RECURSIVE Launch(_, _, _, _, _)
Launch(i, cfg, providers, orders, subs) ==
    IF i > Len(Observers)
    THEN [err |-> Nil, subscriptions |-> subs]
    ELSE IF Observers[i] \notin cfg.enable
    THEN Launch(i + 1, cfg, providers, orders, subs)
    ELSE LET r == New([monitor |-> "console", chainTime |-> TRUE,
                       eventsProviders |-> providers.eventsProviders,
                       nodeVersionProviders |-> providers.nodeVersionProviders,
                       submitter |-> TRUE],
                      cfg.profiles, orders[Observers[i]])
             subs2 == subs \cup {<<Observers[i], a>> : a \in r.opened}
         IN  IF r.err # Nil
             THEN [err |-> r.err, subscriptions |-> subs2]
             ELSE Launch(i + 1, cfg, providers, orders, subs2)

(* startServices: how it ends ("ok", "error" or "panic"), its error and  *)
(* the subscriptions it opened.                                          *)
startServices(cfg, orders) ==
    LET serr == StartSubmitter(cfg.style)
        providers == ObtainProviders(cfg.addresses, 1, cfg.profiles, NoProviders)
        cerr == NewChainTime([genesisProvider |-> TRUE, specProvider |-> TRUE,
                              forkScheduleProvider |-> TRUE])
        launched == Launch(1, cfg, providers, orders, {})
        Failed(err) == [end |-> "error", err |-> err, subscriptions |-> {}]
    IN  IF serr # Nil THEN Failed(serr)
        ELSE IF Len(cfg.addresses) = 0
        THEN Failed(NewError("no consensus client addresses provided"))
        ELSE IF providers.err # Nil THEN Failed(providers.err)
        ELSE IF ~Provides(cfg.profiles[providers.firstClient], "genesis")
        THEN [end |-> "panic", err |-> Nil, subscriptions |-> {}]
        ELSE IF cerr # Nil
        THEN Failed(Wrap(cerr, "failed to create chain time service"))
        ELSE IF launched.err # Nil
        THEN [end |-> "error", err |-> launched.err,
              subscriptions |-> launched.subscriptions]
        ELSE [end |-> "ok", err |-> Nil, subscriptions |-> launched.subscriptions]

(* The body the block handler submits. *)
BlockBody(source, slot, delay) ==
    [source |-> source, method |-> "block event", slot |-> FmtUint64(slot),
     delay_ms |-> ToString(Milliseconds(delay))]

(* 150ms, 13s: the block handler has no gate. *)
BlockDelays == { [sec |-> 0, nsec |-> 150000000], [sec |-> 13, nsec |-> 0] }

(* What NodeSyncing answers: an error, or whether the node is syncing. *)
SyncingResponses == {"error", "syncing", "synced"}

(* What NodeVersion answers. *)
VersionResponses == {"error", "version"}

ObserverFrame == UNCHANGED <<notObserverVars, config>>

(* main calls startServices. *)
StartServices ==
    /\ config.mode = "main"
    /\ started.end = "no"
    /\ \E orders \in [ObserverNames ->
                         Orders({config.addresses[i] : i \in DOMAIN config.addresses})] :
          LET r == startServices(config, orders)
          IN  /\ started' = [end |-> r.end, err |-> r.err]
              /\ subscriptions' = r.subscriptions
    /\ UNCHANGED <<news, blockSubmitted, blockObserved, blockLog>>
    /\ ObserverFrame

(* A test calls events.New with these parameters. *)
NewCall(p) ==
    /\ config.mode = "test"
    /\ Len(news) < MaxNews
    /\ \E order \in Orders(p.eventsProviders) :
          LET r == New(p, config.profiles, order)
          IN  /\ news' = Append(news, [service |-> "blocks", params |-> p,
                                       err |-> r.err, opened |-> r.opened])
              /\ subscriptions' = subscriptions \cup {<<"blocks", a>> : a \in r.opened}
    /\ UNCHANGED <<started, blockSubmitted, blockObserved, blockLog>>
    /\ ObserverFrame

(* A test calls the chain time service's New with these parameters. *)
NewChainTimeCall(p) ==
    /\ config.mode = "test"
    /\ Len(news) < MaxNews
    /\ news' = Append(news, [service |-> "chaintime", params |-> p,
                             err |-> NewChainTime(p), opened |-> {}])
    /\ UNCHANGED <<started, subscriptions, blockSubmitted, blockObserved, blockLog>>
    /\ ObserverFrame

(* Mutant: a syncing node's event is dropped. *)
ReturnsBeforeObservingOrSyncing(profile, syncing) ==
    ~Provides(profile, "node syncing") \/ syncing \in {"error", "syncing"}

(* The returns of the block handler before monitorEventProcessed: the *)
(* provider cannot tell whether it is syncing, or NodeSyncing failed. *)
ReturnsBeforeObserving(profile, syncing) ==
    ~Provides(profile, "node syncing") \/ syncing = "error"

(* The BlockHandler callback of the subscription to address. *)
BlockEvent(address, slot, delay, syncing, version) ==
    /\ started.end = "ok"
    /\ <<"blocks", address>> \in subscriptions
    /\ Len(blockLog) < MaxBlockEvents
    /\ blockLog' = Append(blockLog, [address |-> address, slot |-> slot, delay |-> delay,
                                     syncing |-> syncing, version |-> version])
    /\ IF ReturnsBeforeObserving(config.profiles[address], syncing)
       THEN UNCHANGED <<blockObserved, blockSubmitted>>
       ELSE /\ blockObserved' = Append(blockObserved, delay)
            /\ IF version = "error"
               THEN UNCHANGED blockSubmitted
               ELSE blockSubmitted' =
                        Append(blockSubmitted, BlockBody(NodeVersion(address), slot, delay))
    /\ UNCHANGED <<started, subscriptions, news>>
    /\ ObserverFrame

NextObservers ==
    \/ StartServices
    \/ \E p \in ObserverParameters : NewCall(p)
    \/ \E p \in ChainTimeParameters : NewChainTimeCall(p)
    \/ \E address \in Addresses, slot \in Slots, delay \in BlockDelays,
          syncing \in SyncingResponses, version \in VersionResponses :
             BlockEvent(address, slot, delay, syncing, version)

InitObservers ==
    /\ config \in MainConfigs \cup TestConfigs
    /\ started = [end |-> "no", err |-> Nil]
    /\ subscriptions = {}
    /\ news = <<>>
    /\ blockSubmitted = <<>>
    /\ blockObserved = <<>>
    /\ blockLog = <<>>
    /\ NoEngine
    /\ NoImmediate
    /\ NoFetch
    /\ NoMetrics
    /\ NoClock

SpecObservers == InitObservers /\ [][NextObservers]_vars

----------------------------------------------------------------------------
(* Properties of construction and start-up. *)

(* The New calls made on a service. *)
NewsOf(service) == {i \in DOMAIN news : news[i].service = service}

(* The chain time parameters with all providers but this one. *)
AllBut(provider) ==
    [genesisProvider |-> provider # "genesis", specProvider |-> provider # "spec",
     forkScheduleProvider |-> provider # "fork schedule"]

(* C23: the chain time service's New fails with "no genesis provider        *)
(* specified", "no spec provider specified" or "no fork schedule provider   *)
(* specified" when that provider alone is missing, three different errors,  *)
(* and returns no error when all three are supplied.                        *)
C23_ChainTimeNewErrors ==
    \A i \in NewsOf("chaintime") :
        /\ news[i].params = AllBut("genesis") =>
              news[i].err = <<"problem with parameters", "no genesis provider specified">>
        /\ news[i].params = AllBut("spec") =>
              news[i].err = <<"problem with parameters", "no spec provider specified">>
        /\ news[i].params = AllBut("fork schedule") =>
              news[i].err =
                  <<"problem with parameters", "no fork schedule provider specified">>
        /\ news[i].params = AllBut("none") => news[i].err = Nil
        /\ \A j \in NewsOf("chaintime") :
              (/\ news[i].params # news[j].params
               /\ news[i].params \in {AllBut("genesis"), AllBut("spec"),
                                      AllBut("fork schedule"), AllBut("none")}
               /\ news[j].params \in {AllBut("genesis"), AllBut("spec"),
                                      AllBut("fork schedule"), AllBut("none")}) =>
                  news[i].err # news[j].err

(* C23 witness: New was called without a spec provider and then without a   *)
(* fork schedule provider, and failed differently.                          *)
C23_Witness ==
    /\ Len(news) = 2
    /\ news[1].service = "chaintime" /\ news[1].params = AllBut("spec")
    /\ news[2].service = "chaintime" /\ news[2].params = AllBut("fork schedule")
    /\ news[1].err # Nil /\ news[2].err # Nil /\ news[1].err # news[2].err

(* The innermost message of an error. *)
ErrorCause(err) == err[Len(err)]

(* This New call failed with this message and subscribed to nothing. *)
FailedWith(i, msg) ==
    /\ news[i].err # Nil
    /\ ErrorCause(news[i].err) = msg
    /\ news[i].opened = {}

(* C24: events.New fails, with no subscription opened, with "monitor not    *)
(* supplied" when the monitor is nil, else "chain time service not          *)
(* supplied" when there is no chain time service, else "events providers    *)
(* not supplied" when the events provider map is empty, else "submitter not *)
(* supplied" when there is no submitter.                                    *)
C24_NewRejectsMissingParameters ==
    \A i \in NewsOf("blocks") :
        LET p == news[i].params
        IN  /\ p.monitor = "nil" => FailedWith(i, "monitor not supplied")
            /\ (p.monitor # "nil" /\ ~p.chainTime) =>
                  FailedWith(i, "chain time service not supplied")
            /\ (p.monitor # "nil" /\ p.chainTime /\ p.eventsProviders = {}) =>
                  FailedWith(i, "events providers not supplied")
            /\ (/\ p.monitor # "nil" /\ p.chainTime /\ p.eventsProviders # {}
                /\ ~p.submitter) =>
                  FailedWith(i, "submitter not supplied")

(* The addresses main is configured with whose client lacks the events or *)
(* the node version capability.                                           *)
Incapable ==
    {config.addresses[i] : i \in
        {j \in DOMAIN config.addresses :
            config.profiles[config.addresses[j]] \in {"no events", "no node version"}}}

(* C25: when the client of some configured address does not provide events  *)
(* or does not provide the node version, startServices returns an error and *)
(* no subscription is opened for any upstream by any observer; when that    *)
(* address is the only one configured the error names it.                   *)
C25_IncapableUpstreamStopsStartup ==
    (config.mode = "main" /\ started.end # "no" /\ Incapable # {}) =>
        /\ started.end = "error"
        /\ started.err # Nil
        /\ subscriptions = {}
        /\ \A a \in Addresses :
              (config.addresses = <<a>> /\ StartSubmitter(config.style) = Nil) =>
                  started.err =
                      IF config.profiles[a] = "no events"
                      THEN <<a \o " does not provide events">>
                      ELSE <<a \o " does not provide node version">>

(* C25 witness: with every observer enabled, the second of two upstreams    *)
(* lacks the node version capability, and start-up ended with an error and  *)
(* without a subscription.                                                  *)
C25_Witness ==
    /\ config.mode = "main"
    /\ config.style = "immediate"
    /\ config.addresses = <<"A", "B">>
    /\ config.profiles = [A |-> "full", B |-> "no node version"]
    /\ config.enable = ObserverNames
    /\ started = [end |-> "error", err |-> <<"B does not provide node version">>]
    /\ subscriptions = {}

----------------------------------------------------------------------------
(* The handlers of a process that started with both upstreams capable and   *)
(* every observer enabled: block events and attestation events together.    *)

StartedConfig ==
    [mode |-> "main", style |-> "immediate", addresses |-> <<"A", "B">>,
     profiles |-> [a \in Addresses |-> "full"], enable |-> ObserverNames]

InitHandlers ==
    /\ config = StartedConfig
    /\ started = [end |-> "ok", err |-> Nil]
    /\ subscriptions = ObserverNames \X Addresses
    /\ news = <<>>
    /\ blockSubmitted = <<>>
    /\ blockObserved = <<>>
    /\ blockLog = <<>>
    /\ NoEngine
    /\ NoImmediate
    /\ NoFetch
    /\ NoMetrics
    /\ NoClock

NextHandlers ==
    \/ \E address \in Addresses, delay \in BlockDelays,
          syncing \in SyncingResponses, version \in VersionResponses :
             BlockEvent(address, 0, delay, syncing, version)
    \/ Step(Attestations(Slots, FewVotesAndBits), OneDelay, MaxEvents)

SpecHandlers == InitHandlers /\ [][NextHandlers]_vars

(* The delay of 150 ms. *)
Delay150 == [sec |-> 0, nsec |-> 150000000]

(* An aggregate of slot 0. *)
AnAggregate ==
    CHOOSE a \in Attestations({0}, FewVotesAndBits) : a.aggregationBits = <<7>>

(* C26: a block event during which NodeSyncing or NodeVersion fails, and an *)
(* aggregate attestation event during which NodeVersion fails, make no      *)
(* submitter call; and whatever failed before, the next event of the same   *)
(* subscription is taken and, when the upstream answers, submitted.         *)
C26_TransientFailureDropsTheEvent ==
    /\ [][\A address \in Addresses, delay \in BlockDelays,
             syncing \in SyncingResponses, version \in VersionResponses :
               BlockEvent(address, 0, delay, syncing, version) =>
                   /\ submitted' = submitted
                   /\ IF syncing = "error" \/ version = "error"
                      THEN blockSubmitted' = blockSubmitted
                      ELSE blockSubmitted' =
                               Append(blockSubmitted,
                                      BlockBody(NodeVersion(address), 0, delay))]_vars
    /\ [][\A h \in Addresses :
             /\ AggregateWith(h, TRUE) =>
                   submitted' = submitted /\ blockSubmitted' = blockSubmitted
             /\ AggregateWith(h, FALSE) =>
                   /\ blockSubmitted' = blockSubmitted
                   /\ submitted' = Append(submitted,
                          [op |-> "SubmitAggregateAttestation",
                           body |-> AggregateBody(NodeVersion(h), ev[h])])]_vars
    /\ [](\A address \in Addresses :
             /\ Len(blockLog) < MaxBlockEvents =>
                   ENABLED BlockEvent(address, 0, Delay150, "synced", "version")
             /\ (pc[address] = "idle" /\ events < MaxEvents) =>
                   ENABLED Receive(address, AnAggregate, Delay150, MaxEvents)
             /\ pc[address] = "aggregate" => ENABLED AggregateWith(address, FALSE))

(* C26 witness: upstream A's first block event met a NodeVersion error and  *)
(* its second was submitted; of two aggregates that passed the gate one met *)
(* a NodeVersion error and the other was submitted.                         *)
C26_Witness ==
    /\ Len(blockLog) = 2
    /\ blockLog[1].address = "A" /\ blockLog[1].version = "error"
    /\ blockLog[1].syncing = "synced"
    /\ blockLog[2].address = "A" /\ blockLog[2].version = "version"
    /\ blockLog[2].syncing = "synced"
    /\ Len(blockSubmitted) = 1
    /\ events = 2 /\ eventsReceived = 2 /\ history = <<>>
    /\ \A h \in Addresses : pc[h] = "idle"
    /\ Len(submitted) = 1
    /\ submitted[1].op = "SubmitAggregateAttestation"

----------------------------------------------------------------------------
(* C28: nothing that happens to the submission of an event ends the         *)
(* process: with every Submit call given the handler's context, whatever    *)
(* the collectors answer, no goroutine panics, so every subscription lives  *)
(* on.                                                                      *)
C28_NoEventOutcomeEndsTheProcess ==
    (\A t \in DOMAIN tasks : tasks[t].ctx = "ctx") =>
        /\ ~crashed
        /\ \A t \in DOMAIN tasks : tasks[t].pc # "panicked"

----------------------------------------------------------------------------
(* C29: attestationsMu is held by at most one handler, and only between its *)
(* Lock and the end of its merge or of its lookup of the previous slot: a   *)
(* handler that is building a summary body or calling the submitter does    *)
(* not hold it, and no step taken under the mutex makes a submitter call.   *)
C29_NoSubmitterCallUnderTheMutex ==
    /\ [](/\ Cardinality(attestationsMu) <= 1
          /\ \A h \in Addresses :
                /\ h \in attestationsMu <=> pc[h] \in {"merge", "flush"}
                /\ pc[h] \in {"submit", "aggregate"} => h \notin attestationsMu)
    /\ [][\A h \in Addresses :
             /\ (h \in attestationsMu /\ pc'[h] # pc[h]) => submitted' = submitted
             /\ submitted' # submitted => attestationsMu' = attestationsMu]_vars

(* C29 witness: one handler is about to build and submit the summary of     *)
(* slot 0 without the mutex, while the other holds the mutex for its merge. *)
C29_Witness ==
    /\ pc["A"] = "submit"
    /\ lastSlotSummaries["A"] # EmptyMap
    /\ "A" \notin attestationsMu
    /\ pc["B"] = "merge"
    /\ attestationsMu = {"B"}

----------------------------------------------------------------------------
(* Positions in the history of the singletons of slot n merged since the    *)
(* last removal of the slot's entry, those whose entry is in the table.     *)
InTable(n) == {i \in OfSlot(n) : history[i].at = "table"}

(* slotSummaries holds one summary, with one source and one bucket set. *)
FreshEntry(slotSummaries, address, e) ==
    /\ DOMAIN slotSummaries = {Key(e)}
    /\ DOMAIN slotSummaries[Key(e)].buckets = {address}
    /\ slotSummaries[Key(e)].buckets[address] =
           [NewBuckets EXCEPT ![Bucket(e.delay)] = e.aggregationBits]

(* C30: while a handler serialises the entry it removed for slot N, the     *)
(* table holds for slot N nothing of what was removed: an entry found there *)
(* was made of singletons merged after the removal only. A singleton of     *)
(* slot N merged meanwhile by another handler that finds no entry is stored *)
(* in a fresh one, and no step of another handler changes the removed       *)
(* sub-map.                                                                 *)
C30_RemovedSubMapIsPrivate ==
    /\ [](\A h \in Addresses :
             pc[h] = "submit" =>
                LET n == PrevSlot(ev[h].slot)
                IN  /\ \A i \in HeldBy(h) : history[i].slot = n
                    /\ DOMAIN lastSlotSummaries[h] = {history[i].key : i \in HeldBy(h)}
                    /\ n \in DOMAIN attestationSummaries =>
                          DOMAIN attestationSummaries[n]
                              = {history[i].key : i \in InTable(n)})
    /\ [][\A h \in Addresses :
             (pc[h] = "submit" /\ pc'[h] = "submit") =>
                /\ lastSlotSummaries'[h] = lastSlotSummaries[h]
                /\ \A other \in Addresses \ {h} :
                      (/\ Leaves(other, "merge")
                       /\ ev[other].slot = PrevSlot(ev[h].slot)
                       /\ ev[other].slot \notin DOMAIN attestationSummaries)
                      => FreshEntry(attestationSummaries'[ev[other].slot],
                                    other, ev[other])]_vars

(* C30 witness: A removed the entry of slot 0 and has yet to submit it, and *)
(* B has since merged a singleton of slot 0 into a new entry.               *)
C30_Witness ==
    /\ pc["A"] = "submit"
    /\ PrevSlot(ev["A"].slot) = 0
    /\ lastSlotSummaries["A"] # EmptyMap
    /\ 0 \in DOMAIN attestationSummaries
    /\ \E i \in InTable(0) : history[i].source = "B"
    /\ pc["B"] = "flush"

----------------------------------------------------------------------------
(* The Or of h's singleton into its bucket fails: the bucket holds a        *)
(* bitlist of another length.                                               *)
OrFails(h) ==
    LET old == BucketsAt(attestationSummaries, ev[h].slot, Key(ev[h]), h)
                   [Bucket(ev[h].delay)]
    IN  /\ old # NilBitlist
        /\ BitlistLen(old) # BitlistLen(ev[h].aggregationBits)

(* C31: the merge step of a singleton whose Or fails on a length mismatch   *)
(* ends the handler with the mutex free: the entry of slot-1, when there is *)
(* one, stays in the table as it was, nothing is removed for submission, no *)
(* submitter call is made, and the handler is back where it takes events.   *)
C31_FailedOrDropsTheEventOnly ==
    [][\A h \in Addresses :
          (Leaves(h, "merge") /\ OrFails(h)) =>
              /\ attestationsMu' = {}
              /\ pc'[h] = "idle"
              /\ submitted' = submitted
              /\ lastSlotSummaries' = lastSlotSummaries
              /\ DOMAIN attestationSummaries' = DOMAIN attestationSummaries
              /\ PrevSlot(ev[h].slot) \in DOMAIN attestationSummaries =>
                    attestationSummaries'[PrevSlot(ev[h].slot)]
                        = attestationSummaries[PrevSlot(ev[h].slot)]]_vars

(* C31 witness: the last singleton merged was one of slot 1 whose Or        *)
(* failed; the entry of slot 0 is still in the table, nothing was           *)
(* submitted, the mutex is free and its handler is idle.                    *)
C31_Witness ==
    /\ Len(history) = 3
    /\ history[3].err /\ history[3].slot = 1
    /\ 0 \in DOMAIN attestationSummaries
    /\ submitted = <<>>
    /\ attestationsMu = {}
    /\ pc[history[3].source] = "idle"

----------------------------------------------------------------------------
(* C32: the client map is written, its creation included, only in a step of *)
(* the call that holds clientsMu for writing, no call holding it for        *)
(* reading.                                                                 *)
C32_PoolWrittenUnderWriteLockOnly ==
    [][clients' # clients =>
          \E f \in Fetchers :
              /\ clientsMu.writer = {f}
              /\ clientsMu.readers = {}
              /\ fetch'[f] # fetch[f]]_vars

----------------------------------------------------------------------------
(* C33: the mutex changes hands only by the Lock of a handler that finds it *)
(* free and by one Unlock of the handler that holds it, made on its way out *)
(* of the merge or of the lookup of slot-1; a handler that is idle, or that *)
(* serialises and submits, does not hold it; and a handler waiting at Lock  *)
(* can take the mutex, or its holder can take its next step.                *)
C33_UnlockedOnceOnEveryPath ==
    /\ [](\A h \in Addresses :
             /\ pc[h] \in {"idle", "lock", "submit", "aggregate"} => h \notin attestationsMu
             /\ pc[h] = "lock" =>
                   \/ ENABLED Lock(h)
                   \/ \E holder \in attestationsMu :
                         ENABLED (Merge(holder) \/ Flush(holder)))
    /\ [][attestationsMu' # attestationsMu =>
             \E h \in Addresses :
                 \/ /\ Leaves(h, "lock")
                    /\ attestationsMu = {} /\ attestationsMu' = {h}
                 \/ /\ Leaves(h, "merge") \/ Leaves(h, "flush")
                    /\ pc'[h] \in {"idle", "submit"}
                    /\ attestationsMu = {h} /\ attestationsMu' = {}]_vars

(* C33 witness: three singletons went through the three paths, a merge      *)
(* without a prior slot, a failed Or and a flush; every handler has         *)
(* returned and the mutex is free.                                          *)
C33_Witness ==
    /\ Len(history) = 3
    /\ ~history[1].err /\ history[2].err /\ ~history[3].err
    /\ history[3].slot = 1
    /\ Len(submitted) = 1
    /\ attestationsMu = {}
    /\ \A h \in Addresses : pc[h] = "idle"

----------------------------------------------------------------------------
(* No two of the summaries submitted are for one slot. *)
OneSummaryPerSlot ==
    \A i, j \in DOMAIN submitted :
        (/\ submitted[i].op = "SubmitAttestationSummary"
         /\ submitted[j].op = "SubmitAttestationSummary"
         /\ submitted[i].body.slot = submitted[j].body.slot) => i = j

(* C34, as claimed: at most one attestation summary is ever submitted for a *)
(* slot, whatever the order of the events.                                  *)
C34_OneSummaryPerSlot == OneSummaryPerSlot

(* C34, amended: while the singletons' slots never decrease, at most one    *)
(* attestation summary is submitted for a slot.                             *)
C34_OneSummaryPerSlotInOrder == SlotsNeverDecrease => OneSummaryPerSlot

(* C34 witness: singletons of slots 0, 1 and 1 in turn, all handled to the  *)
(* end; the first of slot 1 had slot 0 submitted, the second did not.       *)
C34_Witness ==
    /\ Len(history) = 3
    /\ history[1].slot = 0 /\ history[2].slot = 1 /\ history[3].slot = 1
    /\ Len(submitted) = 1
    /\ submitted[1].op = "SubmitAttestationSummary"
    /\ submitted[1].body.slot = "0"
    /\ \A h \in Addresses : pc[h] = "idle"
    /\ events = 3

----------------------------------------------------------------------------
(* C35: the merge step of a singleton whose Or fails on a length mismatch   *)
(* leaves the bitlist stored in its bucket as it was.                       *)
C35_FailedOrKeepsTheBucket ==
    [][\A h \in Addresses :
          (Leaves(h, "merge") /\ OrFails(h)) =>
              BucketsAt(attestationSummaries', ev[h].slot, Key(ev[h]), h)
                  = BucketsAt(attestationSummaries, ev[h].slot, Key(ev[h]), h)]_vars

----------------------------------------------------------------------------
----------------------------------------------------------------------------
(* The bitlists a bucket of the merge streams can come to hold. *)
BitlistValues == { vb[2] : vb \in MergeVotesAndBits }

(* Bitlist b is of the length of bits and has every bit of it. *)
HasBits(b, bits) == BitlistLen(b) = BitlistLen(bits) /\ OrBits(b, bits) = b

(* No Or has failed so far. *)
EveryOrSucceeded == \A i \in DOMAIN history : ~history[i].err

(* The bit of the i-th singleton merged is in the table, at its position. *)
InTheTable(i) ==
    HasBits(BucketsAt(attestationSummaries, history[i].slot, history[i].key,
                      history[i].source)[history[i].bucket],
            history[i].bits)

(* The bit of the i-th singleton merged is in a summary that was submitted. *)
InASummary(i) ==
    \E k \in DOMAIN submitted :
        /\ submitted[k].op = "SubmitAttestationSummary"
        /\ submitted[k].body.slot = FmtUint64(history[i].slot)
        /\ \E j \in DOMAIN submitted[k].body.attestations :
              LET entry == submitted[k].body.attestations[j]
              IN  /\ entry.committee_index = FmtUint64(history[i].index)
                  /\ history[i].source \in DOMAIN entry.buckets
                  /\ \E b \in BitlistValues :
                        /\ HasBits(b, history[i].bits)
                        /\ entry.buckets[history[i].source][history[i].bucket + 1]
                               = FmtSharpHex(b)

(* The bit of the i-th singleton merged is in the entry that a handler has  *)
(* removed from the table and is serialising.                               *)
BeingSerialised(i) ==
    \E h \in Addresses :
        /\ pc[h] = "submit"
        /\ history[i].slot = PrevSlot(ev[h].slot)
        /\ HasBits(BucketsAt([n \in {history[i].slot} |-> lastSlotSummaries[h]],
                             history[i].slot, history[i].key,
                             history[i].source)[history[i].bucket],
                   history[i].bits)

(* C37, as claimed: while no Or has failed, the bit of every singleton      *)
(* merged is in the table at its position or in a summary that was passed   *)
(* to SubmitAttestationSummary.                                             *)
C37_NoSingletonLost ==
    EveryOrSucceeded =>
        \A i \in DOMAIN history : InTheTable(i) \/ InASummary(i)

(* C37, amended: while no Or has failed, the bit of every singleton merged  *)
(* is in the table at its position, or in the entry a handler has removed   *)
(* and is about to submit, or in a summary that was passed to               *)
(* SubmitAttestationSummary.                                                *)
C37_NoSingletonLostOnceSubmitted ==
    EveryOrSucceeded =>
        \A i \in DOMAIN history :
            InTheTable(i) \/ BeingSerialised(i) \/ InASummary(i)

(* C37 witness: of three singletons merged without a failure, the first is  *)
(* in the summary submitted for slot 0 and not in the table, and the others *)
(* are in the table; every handler has returned.                            *)
C37_Witness ==
    /\ Len(history) = 3
    /\ EveryOrSucceeded
    /\ history[1].slot = 0
    /\ InASummary(1) /\ ~InTheTable(1)
    /\ InTheTable(2) /\ InTheTable(3)
    /\ ~InASummary(2) /\ ~InASummary(3)
    /\ \A h \in Addresses : pc[h] = "idle"

----------------------------------------------------------------------------
----------------------------------------------------------------------------
(* C39: a goroutine whose request cannot be built, or whose Do returns an   *)
(* error, counts one failure and nothing else, and ends without a panic.    *)
C39_FailureCountedOnceAndTaskEnds ==
    [][\A t \in DOMAIN tasks :
          (\/ tasks[t].pc = "start" /\ tasks'[t].pc # "start"
                 /\ RequestFails(tasks[t].ctx)
           \/ tasks[t].pc = "wait" /\ tasks'[t].pc # "wait"
                 /\ tasks'[t].resp = "refused")
          => /\ tasks'[t].pc = "done"
             /\ ~crashed'
             /\ [counter |-> submitterCounter', timer |-> submitterTimer']
                    = monitorSubmission(Metrics, tasks[t].op, FALSE)]_vars

====
